---- MODULE Spec2Model ----
(***************************************************************************)
(* A model of nlglib's constituent tree (structures.py), its rewrite       *)
(* engine and serialization visitors (microplanning/visitors.py) and its   *)
(* referring-expression generator (reg.py).                                *)
(*                                                                         *)
(* Python objects live in `heap`, a sequence of node records; the address  *)
(* of an object (its id()) is its index, NULL models None.  Every          *)
(* operation of the program is an operator that takes a heap and returns   *)
(* the heap it leaves together with its result.                            *)
(*                                                                         *)
(* visitors.py spells the slots postmodifiers / premodifiers where         *)
(* structures.py spells them post_modifiers / pre_modifiers; the model     *)
(* reads both spellings as the same slot.                                  *)
(***************************************************************************)
EXTENDS Integers, Sequences, FiniteSets, TLC

VARIABLES heap, op, args, ret, pre, vis, ctx, onto, calls

vars == <<heap, op, args, ret, pre, vis, ctx, onto, calls>>

(***************************************************************************)
(* Bounds of the model.                                                    *)
(***************************************************************************)
MaxMods == 2

NULL == 0
NoVal == "_"
NoHash == -1
NoneVal == "None"

(* structures.py:463-477, the variant tags *)
ELEMENT == "ELEMENT"
STRING_T == "STRING"
WORD == "WORD"
VAR == "VAR"
CLAUSE == "CLAUSE"
COORDINATION == "COORDINATION"
PHRASE == "PHRASE"
NOUN_PHRASE == "NOUN_PHRASE"
VERB_PHRASE == "VERB_PHRASE"
PREPOSITIONAL_PHRASE == "PREPOSITIONAL_PHRASE"
ADJECTIVE_PHRASE == "ADJECTIVE_PHRASE"
ADVERB_PHRASE == "ADVERB_PHRASE"

PhraseTypes == {PHRASE, NOUN_PHRASE, VERB_PHRASE, PREPOSITIONAL_PHRASE,
                ADJECTIVE_PHRASE, ADVERB_PHRASE}

FeatKeys == {"cat", "conj", "PROPER", "NUMBER"}
NoFeats == [k \in FeatKeys |-> NoVal]

(* dict.update(other) on feature maps *)
FeatUpdate(mine, other) ==
    [k \in FeatKeys |-> IF other[k] # NoVal THEN other[k] ELSE mine[k]]

(***************************************************************************)
(* Element.__init__: the fields every node carries.  Fields a variant does *)
(* not have keep their blank value.                                        *)
(***************************************************************************)
ElementNode(type, features, parent) ==
    [type |-> type, id |-> "0", features |-> features, hash |-> NoHash,
     parent |-> parent,
     value |-> "", pos |-> "", obj |-> NULL,
     spec |-> NULL, head |-> NULL, subj |-> NULL, vp |-> NULL,
     front_modifiers |-> <<>>, pre_modifiers |-> <<>>,
     complements |-> <<>>, post_modifiers |-> <<>>,
     coords |-> <<>>, conj |-> ""]

Alloc(h, node) == [h |-> Append(h, node), a |-> Len(h) + 1]

(* Element(type, features, parent) *)
NewElement(h, features, parent) ==
    Alloc(h, ElementNode(ELEMENT, features, parent))

(* String(val, features, parent) *)
NewString(h, val, features, parent) ==
    Alloc(h, [ElementNode(STRING_T, features, parent) EXCEPT !.value = val])

(* Word(word, pos, features, base, parent): sets feature cat = pos *)
NewWord(h, word, pos, features, parent) ==
    Alloc(h, [ElementNode(WORD, [features EXCEPT !["cat"] = pos], parent)
                EXCEPT !.value = word, !.pos = pos])

(* Var(id, obj, features, parent); set_value(None) binds Word(str(id), NOUN) *)
NewVar(h, id, obj, features, parent) ==
    LET v == IF obj = NULL THEN NewWord(h, id, "NOUN", NoFeats, NULL)
             ELSE [h |-> h, a |-> obj]
    IN  Alloc(v.h, [ElementNode(VAR, features, parent)
                      EXCEPT !.id = id, !.obj = v.a])

(* Phrase.set_head(elt) on the phrase at address p *)
set_head(h, p, elt) ==
    LET e  == IF elt = NULL THEN NewElement(h, NoFeats, NULL)
              ELSE [h |-> h, a |-> elt]
        h1 == [e.h EXCEPT ![e.a].parent = p]
    IN  [h1 EXCEPT ![p].head = e.a,
                   ![p].features = FeatUpdate(h1[p].features, h1[e.a].features)]

(* NounPhrase.set_spec(spec) *)
set_spec(h, p, spec) ==
    LET e == IF spec = NULL THEN NewElement(h, NoFeats, NULL)
             ELSE [h |-> h, a |-> spec]
    IN  [e.h EXCEPT ![p].spec = e.a]

(* Phrase(type, features, parent): the head starts as an empty Element *)
NewPhrase(h, type, features, parent) ==
    LET p == Alloc(h, ElementNode(type, features, parent))
        e == NewElement(p.h, NoFeats, NULL)
    IN  [h |-> [e.h EXCEPT ![p.a].head = e.a], a |-> p.a]

(* NounPhrase(head, spec, features, parent) *)
NewNounPhrase(h, head, spec, features, parent) ==
    LET p == Alloc(h, ElementNode(NOUN_PHRASE, features, parent))
    IN  [h |-> set_head(set_spec(p.h, p.a, spec), p.a, head), a |-> p.a]

(* VerbPhrase / PrepositionalPhrase / AdverbPhrase / AdjectivePhrase
   (head, features=..., parent=...) *)
NewHeadPhrase(h, type, head, features, parent) ==
    LET p == Alloc(h, ElementNode(type, features, parent))
    IN  [h |-> set_head(p.h, p.a, head), a |-> p.a]

(* Coordination(coords..., conj, features, parent) *)
NewCoordination(h, cs, cj, features, parent) ==
    Alloc(h, [ElementNode(COORDINATION, [features EXCEPT !["conj"] = cj], parent)
                EXCEPT !.coords = cs, !.conj = cj])

(* raise_to_np / raise_to_vp: a String or Word becomes the head of a new
   phrase of type `type`; the coordinates of a Coordination are raised in
   place; anything else (None included) is returned as it is *)
RECURSIVE raise_to(_, _, _)
RECURSIVE raise_list(_, _, _, _, _)
raise_list(h, c, i, type, acc) ==
    IF i > Len(h[c].coords) THEN [h EXCEPT ![c].coords = acc]
    ELSE LET r == raise_to(h, h[c].coords[i], type)
         IN  raise_list(r.h, c, i + 1, type, Append(acc, r.a))
raise_to(h, a, type) ==
    IF a = NULL THEN [h |-> h, a |-> a]
    ELSE IF h[a].type = COORDINATION
         THEN [h |-> raise_list(h, a, 1, type, <<>>), a |-> a]
    ELSE IF h[a].type \in {STRING_T, WORD}
         THEN IF type = NOUN_PHRASE
              THEN NewNounPhrase(h, a, NULL, NoFeats, NULL)
              ELSE NewHeadPhrase(h, type, a, NoFeats, NULL)
    ELSE [h |-> h, a |-> a]

raise_to_np(h, a) == raise_to(h, a, NOUN_PHRASE)
raise_to_vp(h, a) == raise_to(h, a, VERB_PHRASE)

(* Element.__bool__ and its overrides *)
Truthy(h, a) ==
    /\ a # NULL
    /\ h[a].type # ELEMENT
    /\ (h[a].type = STRING_T => h[a].value # "")

(* Clause.set_subj: a falsy subject becomes an empty Element *)
set_subj(h, c, subj) ==
    LET e == IF Truthy(h, subj) THEN [h |-> h, a |-> subj]
             ELSE NewElement(h, NoFeats, NULL)
    IN  [e.h EXCEPT ![c].subj = e.a, ![e.a].parent = c]

(* Clause.set_vp *)
set_vp(h, c, v) == [h EXCEPT ![c].vp = v, ![v].parent = c]

(* Clause(subj, vp, features, parent); vp is never None here *)
NewClause(h, subj, v, features, parent) ==
    LET c  == Alloc(h, ElementNode(CLAUSE, features, parent))
        s  == raise_to_np(c.h, subj)
        h1 == set_subj(s.h, c.a, s.a)
        p  == raise_to_vp(h1, v)
    IN  [h |-> set_vp(p.h, c.a, p.a), a |-> c.a]

(***************************************************************************)
(* Structural equality, a == b, as the __eq__ methods compute it.  Two     *)
(* objects of different variants are never equal; None equals only None.   *)
(***************************************************************************)
RECURSIVE Eq(_, _, _)
EqList(h, s, t) ==
    /\ Len(s) = Len(t)
    /\ \A i \in 1..Len(s) : Eq(h, s[i], t[i])

(* Element.__eq__ *)
Element_eq(h, a, b) ==
    /\ h[a].type = h[b].type
    /\ h[a].id = h[b].id
    /\ h[a].features = h[b].features

(* Phrase.__eq__ *)
Phrase_eq(h, a, b) ==
    /\ h[a].type = h[b].type
    /\ EqList(h, h[a].front_modifiers, h[b].front_modifiers)
    /\ EqList(h, h[a].pre_modifiers, h[b].pre_modifiers)
    /\ Eq(h, h[a].head, h[b].head)
    /\ EqList(h, h[a].complements, h[b].complements)
    /\ EqList(h, h[a].post_modifiers, h[b].post_modifiers)
    /\ Element_eq(h, a, b)

Eq(h, a, b) ==
    IF a = NULL \/ b = NULL THEN a = b
    ELSE IF a = b THEN TRUE
    ELSE IF h[a].type # h[b].type THEN FALSE
    ELSE IF h[a].type = ELEMENT THEN Element_eq(h, a, b)
    ELSE IF h[a].type = STRING_T
         THEN h[a].value = h[b].value /\ Element_eq(h, a, b)
    ELSE IF h[a].type = WORD
         THEN h[a].value = h[b].value /\ h[a].pos = h[b].pos
              /\ Element_eq(h, a, b)
    ELSE IF h[a].type = VAR
         THEN h[a].id = h[b].id /\ Eq(h, h[a].obj, h[b].obj)
              /\ Element_eq(h, a, b)
    ELSE IF h[a].type = COORDINATION
         THEN EqList(h, h[a].coords, h[b].coords) /\ h[a].conj = h[b].conj
              /\ Element_eq(h, a, b)
    ELSE IF h[a].type = CLAUSE
         THEN /\ EqList(h, h[a].pre_modifiers, h[b].pre_modifiers)
              /\ Eq(h, h[a].subj, h[b].subj)
              /\ Eq(h, h[a].vp, h[b].vp)
              /\ EqList(h, h[a].complements, h[b].complements)
              /\ EqList(h, h[a].post_modifiers, h[b].post_modifiers)
              /\ Element_eq(h, a, b)
    ELSE IF h[a].type = NOUN_PHRASE
         THEN Eq(h, h[a].spec, h[b].spec) /\ Eq(h, h[a].head, h[b].head)
              /\ Phrase_eq(h, a, b)
    ELSE Phrase_eq(h, a, b)

(***************************************************************************)
(* copy.deepcopy(x) for an element or None, dispatching to the variant's   *)
(* __deepcopy__, and for a list of elements.  deepcopy of a list keeps one *)
(* memo for the list's own items: an object that occurs twice in the list  *)
(* is copied once.  The __deepcopy__ methods ignore the memo they get.     *)
(***************************************************************************)
RECURSIVE deepcopy(_, _)
RECURSIVE deepcopy_list(_, _, _, _)
deepcopy_list(h, src, i, acc) ==
    IF i > Len(src) THEN [h |-> h, a |-> acc]
    ELSE IF \E j \in 1..(i - 1) : src[j] = src[i]
         THEN LET j == CHOOSE k \in 1..(i - 1) : src[k] = src[i]
              IN  deepcopy_list(h, src, i + 1, Append(acc, acc[j]))
    ELSE LET r == deepcopy(h, src[i])
         IN  deepcopy_list(r.h, src, i + 1, Append(acc, r.a))

(* copyobj.id = self.id; copyobj.hash = self.hash *)
CopyIdHash(h, c, a) == [h EXCEPT ![c].id = h[a].id, ![c].hash = h[a].hash]

(* Element.__deepcopy__ *)
Element_deepcopy(h, a) ==
    LET c == NewElement(h, h[a].features, h[a].parent)
    IN  [h |-> CopyIdHash(c.h, c.a, a), a |-> c.a]

(* String.__deepcopy__ *)
String_deepcopy(h, a) ==
    LET c == NewString(h, h[a].value, h[a].features, h[a].parent)
    IN  [h |-> CopyIdHash(c.h, c.a, a), a |-> c.a]

(* Word.__deepcopy__ *)
Word_deepcopy(h, a) ==
    LET c == NewWord(h, h[a].value, h[a].pos, h[a].features, h[a].parent)
    IN  [h |-> CopyIdHash(c.h, c.a, a), a |-> c.a]

(* Var.__deepcopy__: the bound value is passed on, not copied *)
Var_deepcopy(h, a) ==
    LET c == NewVar(h, h[a].id, h[a].obj, h[a].features, h[a].parent)
    IN  [h |-> CopyIdHash(c.h, c.a, a), a |-> c.a]

(* Coordination.__deepcopy__ *)
Coordination_deepcopy(h, a) ==
    LET c  == NewCoordination(h, <<>>, h[a].conj, h[a].features, h[a].parent)
        cs == deepcopy_list(c.h, h[a].coords, 1, <<>>)
    IN  [h |-> [cs.h EXCEPT ![c.a].coords = cs.a, ![c.a].id = h[a].id],
         a |-> c.a]

(* Phrase.__deepcopy__ *)
Phrase_deepcopy(h, a) ==
    LET c  == NewPhrase(h, h[a].type, h[a].features, h[a].parent)
        fm == deepcopy_list(c.h, h[a].front_modifiers, 1, <<>>)
        pm == deepcopy_list(fm.h, h[a].pre_modifiers, 1, <<>>)
        hd == deepcopy(pm.h, h[a].head)
        cm == deepcopy_list(hd.h, h[a].complements, 1, <<>>)
        po == deepcopy_list(cm.h, h[a].post_modifiers, 1, <<>>)
    IN  [h |-> [po.h EXCEPT ![c.a].id = h[a].id,
                            ![c.a].front_modifiers = fm.a,
                            ![c.a].pre_modifiers = pm.a,
                            ![c.a].head = hd.a,
                            ![c.a].complements = cm.a,
                            ![c.a].post_modifiers = po.a],
         a |-> c.a]

(* NounPhrase.__deepcopy__ *)
NounPhrase_deepcopy(h, a) ==
    LET hd == deepcopy(h, h[a].head)
        sp == deepcopy(hd.h, h[a].spec)
        c  == NewNounPhrase(sp.h, hd.a, sp.a, h[a].features, h[a].parent)
    IN  [h |-> CopyIdHash(c.h, c.a, a), a |-> c.a]

(* VerbPhrase / PrepositionalPhrase / AdverbPhrase / AdjectivePhrase
   .__deepcopy__ *)
HeadPhrase_deepcopy(h, a) ==
    LET hd == deepcopy(h, h[a].head)
        c  == NewHeadPhrase(hd.h, h[a].type, hd.a, h[a].features, h[a].parent)
        cm == deepcopy_list(c.h, h[a].complements, 1, <<>>)
    IN  [h |-> [CopyIdHash(cm.h, c.a, a) EXCEPT ![c.a].complements = cm.a],
         a |-> c.a]

(* Clause.__deepcopy__ *)
Clause_deepcopy(h, a) ==
    LET sj == deepcopy(h, h[a].subj)
        vb == deepcopy(sj.h, h[a].vp)
        c  == NewClause(vb.h, sj.a, vb.a, h[a].features, h[a].parent)
        fm == deepcopy_list(c.h, h[a].front_modifiers, 1, <<>>)
        pm == deepcopy_list(fm.h, h[a].pre_modifiers, 1, <<>>)
        cm == deepcopy_list(pm.h, h[a].complements, 1, <<>>)
        po == deepcopy_list(cm.h, h[a].post_modifiers, 1, <<>>)
    IN  [h |-> [po.h EXCEPT ![c.a].id = h[a].id,
                            ![c.a].front_modifiers = fm.a,
                            ![c.a].pre_modifiers = pm.a,
                            ![c.a].complements = cm.a,
                            ![c.a].post_modifiers = po.a],
         a |-> c.a]

deepcopy(h, a) ==
    IF a = NULL THEN [h |-> h, a |-> NULL]
    ELSE IF h[a].type = ELEMENT THEN Element_deepcopy(h, a)
    ELSE IF h[a].type = STRING_T THEN String_deepcopy(h, a)
    ELSE IF h[a].type = WORD THEN Word_deepcopy(h, a)
    ELSE IF h[a].type = VAR THEN Var_deepcopy(h, a)
    ELSE IF h[a].type = COORDINATION THEN Coordination_deepcopy(h, a)
    ELSE IF h[a].type = CLAUSE THEN Clause_deepcopy(h, a)
    ELSE IF h[a].type = PHRASE THEN Phrase_deepcopy(h, a)
    ELSE IF h[a].type = NOUN_PHRASE THEN NounPhrase_deepcopy(h, a)
    ELSE HeadPhrase_deepcopy(h, a)

(***************************************************************************)
(* Feature and list mutators of Element and Phrase.                        *)
(***************************************************************************)
(* Element.set_feature *)
set_feature(h, a, k, v) == [h EXCEPT ![a].features[k] = v]

(* Element.del_feature(feat, val); val = NoVal models val=None, and a
   feature whose value is None holds NoneVal *)
del_feature(h, a, k, v) ==
    IF h[a].features[k] = NoVal THEN h
    ELSE IF v # NoVal THEN [h EXCEPT ![a].features[k] = NoVal]
    ELSE IF h[a].features[k] = NoneVal THEN [h EXCEPT ![a].features[k] = NoVal]
    ELSE h

(* the list held by a modifier slot *)
Slots == {"front_modifiers", "pre_modifiers", "complements", "post_modifiers"}
GetList(h, a, slot) ==
    CASE slot = "front_modifiers" -> h[a].front_modifiers
      [] slot = "pre_modifiers"   -> h[a].pre_modifiers
      [] slot = "complements"     -> h[a].complements
      [] slot = "post_modifiers"  -> h[a].post_modifiers
      [] slot = "coords"          -> h[a].coords
SetList(h, a, slot, s) ==
    CASE slot = "front_modifiers" -> [h EXCEPT ![a].front_modifiers = s]
      [] slot = "pre_modifiers"   -> [h EXCEPT ![a].pre_modifiers = s]
      [] slot = "complements"     -> [h EXCEPT ![a].complements = s]
      [] slot = "post_modifiers"  -> [h EXCEPT ![a].post_modifiers = s]
      [] slot = "coords"          -> [h EXCEPT ![a].coords = s]

(* Phrase.add_front_modifier / add_pre_modifier (pos=0: insert in front),
   add_complement / add_post_modifier (pos=None: append), through
   Element._add_to_list, which also sets the modifier's parent *)
add_modifier(h, a, slot, m) ==
    LET s  == GetList(h, a, slot)
        s1 == IF slot \in {"front_modifiers", "pre_modifiers"}
              THEN <<m>> \o s ELSE Append(s, m)
    IN  SetList([h EXCEPT ![m].parent = a], a, slot, s1)

(* del lst[i] *)
DelAt(s, i) == SubSeq(s, 1, i - 1) \o SubSeq(s, i + 1, Len(s))

(* Phrase.del_front_modifier(m) ... del_post_modifier(m), through
   Element._del_from_list: lst.remove(m) takes out the first member equal
   to m *)
del_modifier(h, a, slot, m) ==
    LET s == GetList(h, a, slot)
        hits == {i \in 1..Len(s) : Eq(h, s[i], m)}
    IN  IF hits = {} THEN h
        ELSE SetList(h, a, slot,
                     DelAt(s, CHOOSE i \in hits : \A j \in hits : i <= j))

(* Var.set_value with an element *)
set_value(h, a, v) == [h EXCEPT ![a].obj = v]

(***************************************************************************)
(* The objects an element holds: its slots, list members and, for a Var,   *)
(* its bound value; Reach is the closure.                                  *)
(***************************************************************************)
Range(s) == {s[i] : i \in 1..Len(s)}
Children(h, a) ==
    ({h[a].spec, h[a].head, h[a].subj, h[a].vp, h[a].obj}
       \cup Range(h[a].front_modifiers) \cup Range(h[a].pre_modifiers)
       \cup Range(h[a].complements) \cup Range(h[a].post_modifiers)
       \cup Range(h[a].coords)) \ {NULL}
RECURSIVE ReachFrom(_, _, _)
ReachFrom(h, todo, seen) ==
    IF todo = {} THEN seen
    ELSE LET a == CHOOSE x \in todo : TRUE
             new == Children(h, a) \ (seen \cup {a})
         IN  ReachFrom(h, (todo \ {a}) \cup new, seen \cup {a})
Reach(h, a) == IF a = NULL THEN {} ELSE ReachFrom(h, {a}, {})
Addrs(h) == 1..Len(h)
(* the objects that hold a, directly or not *)
Ancestors(h, a) == {b \in Addrs(h) \ {a} : a \in Reach(h, b)}

(***************************************************************************)
(* The rewrite engine of visitors.py.  A result is the heap the call       *)
(* leaves, the boolean it returns and whether it raised instead.           *)
(***************************************************************************)
Res(h, r) == [h |-> h, r |-> r, err |-> FALSE]
Raised(h) == [h |-> h, r |-> FALSE, err |-> TRUE]

(* list(enumerate(lst)) and reversed(list(enumerate(lst))): the order in
   which the indices of a list of length n are visited *)
Forward(n) == [i \in 1..n |-> i]
(* the order of a loop whose reversed() is left out *)
Unreversed(n) == [i \in 1..n |-> i]
Reversed(n) == [i \in 1..n |-> n + 1 - i]

(* lst[i] = replacement, or del lst[i] when the replacement is None *)
Splice(h, a, slot, i, replacement) ==
    LET s == GetList(h, a, slot)
    IN  SetList(h, a, slot,
                IF replacement = NULL THEN DelAt(s, i)
                ELSE [s EXCEPT ![i] = replacement])

RECURSIVE replace_element(_, _, _, _)
RECURSIVE replace_element_with_id(_, _, _, _)

(* the target test of the two entry points: o == elt, id(o) == elt_id *)
Matches(h, byid, o, elt) == IF byid THEN o = elt ELSE Eq(h, o, elt)

(* one "for i, o in <order>(list(enumerate(sent.<slot>)))" loop of either
   entry point, from the k-th index of the order on *)
RECURSIVE replace_in_list(_, _, _, _, _, _, _, _)
replace_in_list(h, byid, sent, slot, order, k, elt, replacement) ==
    IF k > Len(order) THEN Res(h, FALSE)
    ELSE LET i == order[k]
             o == GetList(h, sent, slot)[i]
         IN  IF Matches(h, byid, o, elt)
             THEN Res(Splice(h, sent, slot, i, replacement), TRUE)
             ELSE LET rr == IF byid
                            THEN replace_element_with_id(h, o, elt, replacement)
                            ELSE replace_element(h, o, elt, replacement)
                  IN  IF rr.r THEN rr
                      ELSE replace_in_list(h, byid, sent, slot, order, k + 1,
                                           elt, replacement)

(* the loop over one slot of sent in the given direction *)
ScanSlot(h, byid, sent, slot, rev, elt, replacement) ==
    LET n == Len(GetList(h, sent, slot))
    IN  replace_in_list(h, byid, sent, slot,
                        IF rev THEN Reversed(n) ELSE Forward(n), 1,
                        elt, replacement)

(* the "if isinstance(sent, Phrase)" block of replace_element *)
replace_element_phrase(h, sent, elt, replacement) ==
    LET s1 == ScanSlot(h, FALSE, sent, "post_modifiers", TRUE, elt, replacement)
    IN  IF s1.r THEN s1 ELSE
    LET s2 == ScanSlot(h, FALSE, sent, "complements", TRUE, elt, replacement)
    IN  IF s2.r THEN s2 ELSE
    IF Eq(h, h[sent].head, elt)
    THEN Res([h EXCEPT ![sent].head = replacement], TRUE) ELSE
    LET s3 == ScanSlot(h, FALSE, sent, "pre_modifiers", TRUE, elt, replacement)
    IN  IF s3.r THEN s3 ELSE
    IF h[sent].type = NOUN_PHRASE /\ Eq(h, h[sent].spec, elt)
    THEN Res([h EXCEPT ![sent].spec = replacement], TRUE)
    ELSE Res(h, FALSE)

(* the "if isinstance(sent, Clause)" block of replace_element; a Clause is
   no Phrase, so nothing follows it *)
replace_element_clause(h, sent, elt, replacement) ==
    IF Eq(h, h[sent].subj, elt)
    THEN Res([h EXCEPT ![sent].subj = replacement], TRUE) ELSE
    LET s1 == replace_element(h, h[sent].subj, elt, replacement)
    IN  IF s1.r THEN s1 ELSE
    IF Eq(h, h[sent].vp, elt)
    THEN Res([h EXCEPT ![sent].vp = replacement], TRUE)
    ELSE replace_element(h, h[sent].vp, elt, replacement)

replace_element(h, sent, elt, replacement) ==
    IF Eq(h, sent, elt) THEN Res(h, TRUE)
    ELSE IF sent = NULL THEN Res(h, FALSE)
    ELSE IF h[sent].type = CLAUSE
         THEN replace_element_clause(h, sent, elt, replacement)
    ELSE IF h[sent].type = COORDINATION
         THEN ScanSlot(h, FALSE, sent, "coords", FALSE, elt, replacement)
    ELSE IF h[sent].type \in PhraseTypes
         THEN replace_element_phrase(h, sent, elt, replacement)
    ELSE Res(h, FALSE)

(* sent.subj = replacement or Element() *)
OrElement(h, a) ==
    IF Truthy(h, a) THEN [h |-> h, a |-> a] ELSE NewElement(h, NoFeats, NULL)

(* the "if isinstance(sent, Clause)" block of replace_element_with_id *)
replace_element_with_id_clause(h, sent, elt_id, replacement) ==
    LET s1 == ScanSlot(h, TRUE, sent, "pre_modifiers", TRUE, elt_id, replacement)
    IN  IF s1.r THEN s1 ELSE
    IF h[sent].subj = elt_id
    THEN LET e == OrElement(h, replacement)
         IN  Res([e.h EXCEPT ![sent].subj = e.a], TRUE) ELSE
    LET s2 == replace_element_with_id(h, h[sent].subj, elt_id, replacement)
    IN  IF s2.r THEN s2 ELSE
    IF h[sent].vp = elt_id
    THEN Res([h EXCEPT ![sent].vp = replacement], TRUE) ELSE
    LET s3 == replace_element_with_id(h, h[sent].vp, elt_id, replacement)
    IN  IF s3.r THEN s3 ELSE
    LET s4 == ScanSlot(h, TRUE, sent, "complements", TRUE, elt_id, replacement)
    IN  IF s4.r THEN s4 ELSE
    ScanSlot(h, TRUE, sent, "post_modifiers", TRUE, elt_id, replacement)

(* the "if isinstance(sent, Phrase)" block of replace_element_with_id; its
   last test, sent.spec == elt_id, compares an element with an integer and
   is never true *)
replace_element_with_id_phrase(h, sent, elt_id, replacement) ==
    LET s1 == ScanSlot(h, TRUE, sent, "post_modifiers", TRUE, elt_id, replacement)
    IN  IF s1.r THEN s1 ELSE
    LET s2 == ScanSlot(h, TRUE, sent, "complements", TRUE, elt_id, replacement)
    IN  IF s2.r THEN s2 ELSE
    IF h[sent].head = elt_id
    THEN Res([h EXCEPT ![sent].head = replacement], TRUE) ELSE
    LET s3 == ScanSlot(h, TRUE, sent, "pre_modifiers", TRUE, elt_id, replacement)
    IN  IF s3.r THEN s3 ELSE Res(h, FALSE)

replace_element_with_id(h, sent, elt_id, replacement) ==
    IF sent = elt_id THEN Res(h, TRUE)
    ELSE IF sent = NULL THEN Res(h, FALSE)
    ELSE IF h[sent].type = COORDINATION
         THEN ScanSlot(h, TRUE, sent, "coords", FALSE, elt_id, replacement)
    ELSE IF h[sent].type = CLAUSE
         THEN replace_element_with_id_clause(h, sent, elt_id, replacement)
    ELSE IF h[sent].type \in PhraseTypes
         THEN replace_element_with_id_phrase(h, sent, elt_id, replacement)
    ELSE Res(h, FALSE)

(***************************************************************************)
(* The element method replace(one, another) of structures.py.              *)
(***************************************************************************)
RECURSIVE replace(_, _, _, _)

(* one "for i, o in enumerate(self.<slot>)" loop of a replace method.  In a
   Coordination the replacement is tested for truth ("if another"), in a
   Phrase for None ("if another is None") *)
RECURSIVE replace_loop(_, _, _, _, _, _)
replace_loop(h, self, slot, i, one, another) ==
    IF i > Len(GetList(h, self, slot)) THEN Res(h, FALSE)
    ELSE LET o == GetList(h, self, slot)[i]
             keep == IF slot = "coords" THEN Truthy(h, another)
                     ELSE another # NULL
         IN  IF Eq(h, o, one)
             THEN Res(Splice(h, self, slot, i,
                             IF keep THEN another ELSE NULL), TRUE)
             ELSE LET rr == replace(h, o, one, another)
                  IN  IF rr.r \/ rr.err THEN rr
                      ELSE replace_loop(h, self, slot, i + 1, one, another)

(* Coordination.replace *)
Coordination_replace(h, self, one, another) ==
    replace_loop(h, self, "coords", 1, one, another)

(* "for k in self.head.features.keys(): if k in self.features: del ..." *)
DropHeadFeatures(h, self) ==
    [h EXCEPT ![self].features =
        [k \in FeatKeys |-> IF h[h[self].head].features[k] # NoVal
                            THEN NoVal ELSE h[self].features[k]]]

(* mod.parent = self for every member of a list *)
RECURSIVE SetParents(_, _, _)
SetParents(h, s, p) ==
    IF s = <<>> THEN h
    ELSE SetParents([h EXCEPT ![Head(s)].parent = p], Tail(s), p)

ReverseSeq(s) == [i \in 1..Len(s) |-> s[Len(s) + 1 - i]]

(* the branch of Phrase.replace taken when another is a phrase of the same
   type as self: self takes over another's slots *)
MergeInto(h, self, another) ==
    LET o  == h[another]
        h1 == IF h[self].type = NOUN_PHRASE
              THEN [h EXCEPT ![self].spec = o.spec] ELSE h
        h2 == SetParents(h1, o.front_modifiers \o o.pre_modifiers
                               \o o.complements \o o.post_modifiers, self)
    IN  [h2 EXCEPT
           ![self].front_modifiers =
               ReverseSeq(o.front_modifiers) \o h2[self].front_modifiers,
           ![self].pre_modifiers =
               ReverseSeq(o.pre_modifiers) \o h2[self].pre_modifiers,
           ![self].head = o.head,
           ![self].complements = h2[self].complements \o o.complements,
           ![self].post_modifiers = h2[self].post_modifiers \o o.post_modifiers]

(* the "if self.head == one" branch of Phrase.replace;
   self.features.update(another.features) raises when another is None *)
replace_head(h, self, another) ==
    LET h1 == DropHeadFeatures(h, self)
        h2 == IF another # NULL /\ h1[self].type = h1[another].type
              THEN MergeInto(h1, self, another)
              ELSE [h1 EXCEPT ![self].head = another]
    IN  IF another = NULL THEN Raised(h2)
        ELSE Res([h2 EXCEPT ![self].features =
                      FeatUpdate(h2[self].features, h2[another].features)],
                 TRUE)

(* Phrase.replace *)
Phrase_replace(h, self, one, another) ==
    LET s1 == replace_loop(h, self, "front_modifiers", 1, one, another)
    IN  IF s1.r \/ s1.err THEN s1 ELSE
    LET s2 == replace_loop(h, self, "pre_modifiers", 1, one, another)
    IN  IF s2.r \/ s2.err THEN s2 ELSE
    LET s3 == IF Eq(h, h[self].head, one) THEN replace_head(h, self, another)
              ELSE IF h[self].head # NULL
                   THEN replace(h, h[self].head, one, another)
              ELSE Res(h, FALSE)
    IN  IF s3.r \/ s3.err THEN s3 ELSE
    LET s4 == replace_loop(h, self, "complements", 1, one, another)
    IN  IF s4.r \/ s4.err THEN s4 ELSE
    replace_loop(h, self, "post_modifiers", 1, one, another)

(* a NounPhrase.replace that leaves the specifier to the end: it is
   looked at only when Phrase.replace has found nothing *)
NounPhrase_replace_spec_last(h, self, one, another) ==
    LET s1 == Phrase_replace(h, self, one, another)
    IN  IF s1.r \/ s1.err THEN s1
        ELSE IF Eq(h, h[self].spec, one)
        THEN Res([h EXCEPT ![self].spec = another], TRUE)
        ELSE Res(h, FALSE)

(* NounPhrase.replace *)
NounPhrase_replace(h, self, one, another) ==
    IF Eq(h, h[self].spec, one)
    THEN Res([h EXCEPT ![self].spec = another], TRUE) ELSE
    LET s1 == IF h[self].spec # NULL
              THEN replace(h, h[self].spec, one, another)
              ELSE Res(h, FALSE)
    IN  IF s1.r \/ s1.err THEN s1
        ELSE Phrase_replace(h, self, one, another)

(* "self.<slot> = raise_to_xp(another); self.<slot>.parent = self" of
   Clause.replace: the second statement raises when another is None *)
Clause_assign(h, self, slot, another) ==
    LET r  == raise_to(h, another,
                       IF slot = "subj" THEN NOUN_PHRASE ELSE VERB_PHRASE)
        h1 == IF slot = "subj" THEN [r.h EXCEPT ![self].subj = r.a]
              ELSE [r.h EXCEPT ![self].vp = r.a]
    IN  IF r.a = NULL THEN Raised(h1)
        ELSE Res([h1 EXCEPT ![r.a].parent = self], TRUE)

(* Clause.replace; Element.replace, its super().replace, returns False *)
Clause_replace(h, self, one, another) ==
    LET s1 == IF Eq(h, h[self].subj, one)
              THEN Clause_assign(h, self, "subj", another)
              ELSE IF h[self].subj # NULL
                   THEN replace(h, h[self].subj, one, another)
              ELSE Res(h, FALSE)
    IN  IF s1.r \/ s1.err THEN s1 ELSE
    IF Eq(h, h[self].vp, one) THEN Clause_assign(h, self, "vp", another)
    ELSE IF h[self].vp # NULL THEN replace(h, h[self].vp, one, another)
    ELSE Res(h, FALSE)

(* o.replace(one, another), by the class of o *)
replace(h, self, one, another) ==
    IF h[self].type = COORDINATION THEN Coordination_replace(h, self, one, another)
    ELSE IF h[self].type = CLAUSE THEN Clause_replace(h, self, one, another)
    ELSE IF h[self].type = NOUN_PHRASE THEN NounPhrase_replace(h, self, one, another)
    ELSE IF h[self].type \in PhraseTypes THEN Phrase_replace(h, self, one, another)
    ELSE Res(h, FALSE)

(***************************************************************************)
(* The constituent-tree specifications.  The lexical material is fixed:    *)
(*   1  Word('x', 'NOUN')          2  Word('y', 'NOUN')                    *)
(*   3  PrepositionalPhrase(2, 1)  -- head y, complement x                 *)
(*   4  String('x')                                                        *)
(*   6  Var('v'), bound by set_value(None) to 5 = Word('v', 'NOUN')        *)
(*   7  Word('z', 'NOUN'), used as a replacement only                      *)
(*   8  Word('Bob', 'NOUN') and 9  Word('x1', 'NOUN'), referents           *)
(* One sentence (the root) is built over it: a constructor call followed   *)
(* by add_*_modifier calls.  Then one operation is applied.                *)
(***************************************************************************)
LexX == NewWord(<<>>, "x", "NOUN", NoFeats, NULL)
WordX == LexX.a
LexY == NewWord(LexX.h, "y", "NOUN", NoFeats, NULL)
WordY == LexY.a
LexPP == NewHeadPhrase(LexY.h, PREPOSITIONAL_PHRASE, WordY, NoFeats, NULL)
Inner == LexPP.a
LexS == NewString(add_modifier(LexPP.h, Inner, "complements", WordX),
                  "x", NoFeats, NULL)
StringX == LexS.a
LexV == NewVar(LexS.h, "v", NULL, NoFeats, NULL)
VarV == LexV.a
LexZ == NewWord(LexV.h, "z", "NOUN", NoFeats, NULL)
WordZ == LexZ.a
LexBob == NewWord(LexZ.h, "Bob", "NOUN", NoFeats, NULL)
WordBob == LexBob.a
LexX1 == NewWord(LexBob.h, "x1", "NOUN", NoFeats, NULL)
WordX1 == LexX1.a
Lexicon == LexX1.h

Kids == {WordX, WordY, Inner}

HeadPhraseTypes == {VERB_PHRASE, PREPOSITIONAL_PHRASE,
                    ADJECTIVE_PHRASE, ADVERB_PHRASE}

NoHandlers == [handlers |-> {}, arity |-> 1, callable |-> TRUE]
NoArgs == [root |-> NULL, target |-> NULL, repl |-> NULL,
           visitor |-> NoHandlers]
NoRet == [a |-> NULL, r |-> FALSE, err |-> FALSE, path |-> "",
          cached |-> FALSE, called |-> NoVal]
NoVisitor == [kind |-> "", ancestors |-> <<>>, depth |-> 0, depth0 |-> 0,
              enters |-> 0, exits |-> 0, raised |-> FALSE]
NoContext == [referents |-> <<>>, np_stack |-> <<>>]
NoOntology == [present |-> FALSE, raises |-> FALSE, things |-> {}]

Others == <<vis, ctx, onto, calls>>

Init ==
    /\ heap = Lexicon
    /\ op = "lexicon"
    /\ args = NoArgs
    /\ ret = NoRet
    /\ pre = <<>>
    /\ vis = NoVisitor
    /\ ctx = NoContext
    /\ onto = NoOntology
    /\ calls = 0

(* the sentence has been constructed: r is the constructor's result *)
Built(r) ==
    /\ heap' = r.h
    /\ op' = "build"
    /\ args' = [NoArgs EXCEPT !.root = r.a]
    /\ UNCHANGED <<ret, pre, vis, ctx, onto, calls>>

(* number of list members of the element a *)
Members(h, a) ==
    Len(h[a].front_modifiers) + Len(h[a].pre_modifiers)
      + Len(h[a].complements) + Len(h[a].post_modifiers) + Len(h[a].coords)

BuildPhrase ==
    /\ op = "lexicon"
    /\ Built(NewPhrase(heap, PHRASE, NoFeats, NULL))

BuildHeadPhrase ==
    /\ op = "lexicon"
    /\ \E t \in HeadPhraseTypes, hd \in Kids :
          Built(NewHeadPhrase(heap, t, hd, NoFeats, NULL))

BuildNounPhrase ==
    /\ op = "lexicon"
    /\ \E hd \in Kids, sp \in {NULL, WordX, WordY} :
          Built(NewNounPhrase(heap, hd, sp, NoFeats, NULL))

BuildClause ==
    /\ op = "lexicon"
    /\ \E sj \in Kids \cup {NULL}, v \in Kids :
          Built(NewClause(heap, sj, v, NoFeats, NULL))

BuildCoordination ==
    /\ op = "lexicon"
    /\ \E a \in Kids :
          Built(NewCoordination(heap, <<a>>, "and", NoFeats, NULL))

(* root.add_coordinate(m) *)
AddCoordinate ==
    /\ op = "build"
    /\ heap[args.root].type = COORDINATION
    /\ Members(heap, args.root) < MaxMods
    /\ \E m \in Kids :
          /\ heap' = [heap EXCEPT ![args.root].coords = Append(@, m)]
          /\ UNCHANGED <<op, args, ret, pre, vis, ctx, onto, calls>>

(* root.add_front_modifier(m), root.add_pre_modifier(m),
   root.add_complement(m), root.add_post_modifier(m) *)
AddModifier ==
    /\ op = "build"
    /\ heap[args.root].type \in PhraseTypes \cup {CLAUSE}
    /\ Members(heap, args.root) < MaxMods
    /\ \E m \in {WordX, Inner}, slot \in Slots :
          /\ heap' = add_modifier(heap, args.root, slot, m)
          /\ UNCHANGED <<op, args, ret, pre, vis, ctx, onto, calls>>

(* the outcome of a rewrite of the sentence *)
Rewritten(name, target, repl, res) ==
    /\ heap' = res.h
    /\ op' = name
    /\ args' = [args EXCEPT !.target = target, !.repl = repl]
    /\ ret' = [NoRet EXCEPT !.r = res.r, !.err = res.err]
    /\ pre' = heap
    /\ UNCHANGED Others

(* what the operations are asked to find, and to put in its place; a
   replacement never holds the sentence, so the tree stays a tree *)
Targets == Kids \cup {StringX}
Replacements(h, root) == {NULL, WordZ} \cup ({Inner} \ Reach(h, root))

(* replace_element(root, target, repl) *)
ReplaceElement ==
    /\ op = "build"
    /\ \E t \in Targets \cup {args.root}, r \in Replacements(heap, args.root) :
          Rewritten("replace_element", t, r,
                    replace_element(heap, args.root, t, r))

(* replace_element_with_id(root, id(target), repl) *)
ReplaceElementWithId ==
    /\ op = "build"
    /\ \E t \in Targets \cup {args.root}, r \in Replacements(heap, args.root) :
          Rewritten("replace_element_with_id", t, r,
                    replace_element_with_id(heap, args.root, t, r))

(* root.replace(target, repl) *)
Replace ==
    /\ op = "build"
    /\ \E t \in Targets, r \in Replacements(heap, args.root) :
          Rewritten("replace", t, r, replace(heap, args.root, t, r))

Next ==
    \/ BuildPhrase
    \/ BuildHeadPhrase
    \/ BuildNounPhrase
    \/ BuildClause
    \/ BuildCoordination
    \/ AddCoordinate
    \/ AddModifier
    \/ ReplaceElement
    \/ ReplaceElementWithId
    \/ Replace

Spec == Init /\ [][Next]_vars

(***************************************************************************)
(* Copying.  An element of the sentence, or a String or Var of the         *)
(* lexicon, is deep-copied; then the copy, or a node under it, is changed  *)
(* once.  args.target is the original, ret.a the copy and pre the heap as  *)
(* the copy left it.                                                       *)
(***************************************************************************)
Originals(h, root) == Reach(h, root) \cup {StringX, VarV}

(* c = deepcopy(e) *)
DeepCopy ==
    /\ op = "build"
    /\ \E e \in Originals(heap, args.root) :
          LET res == deepcopy(heap, e)
          IN  /\ heap' = res.h
              /\ op' = "deepcopy"
              /\ args' = [args EXCEPT !.target = e]
              /\ ret' = [NoRet EXCEPT !.a = res.a]
              /\ pre' = res.h
              /\ UNCHANGED Others

(* the copy has been changed into the heap h *)
Mutated(h) ==
    /\ heap' = h
    /\ op' = "mutate"
    /\ UNCHANGED <<args, ret, pre, vis, ctx, onto, calls>>

IsPhrasal(h, n) == h[n].type \in PhraseTypes \cup {CLAUSE}

(* n.set_feature('NUMBER', 'plural') on a node n of the copy *)
CopySetFeature ==
    /\ op = "deepcopy"
    /\ \E n \in Reach(heap, ret.a) :
          Mutated(set_feature(heap, n, "NUMBER", "plural"))

(* n.del_feature('cat', 'NOUN') on a node n of the copy *)
CopyDelFeature ==
    /\ op = "deepcopy"
    /\ \E n \in Reach(heap, ret.a) :
          /\ heap[n].features["cat"] # NoVal
          /\ Mutated(del_feature(heap, n, "cat", "NOUN"))

(* n.add_front_modifier(z) ... n.add_post_modifier(z) on a node of the copy *)
CopyAddModifier ==
    /\ op = "deepcopy"
    /\ \E n \in Reach(heap, ret.a), slot \in Slots :
          /\ IsPhrasal(heap, n)
          /\ Mutated(add_modifier(heap, n, slot, WordZ))

(* n.del_front_modifier(m) ... n.del_post_modifier(m) on a node of the copy *)
CopyDelModifier ==
    /\ op = "deepcopy"
    /\ \E n \in Reach(heap, ret.a), slot \in Slots :
          /\ IsPhrasal(heap, n)
          /\ GetList(heap, n, slot) # <<>>
          /\ Mutated(del_modifier(heap, n, slot, GetList(heap, n, slot)[1]))

(* n.set_head(z) on a phrase of the copy *)
CopySetHead ==
    /\ op = "deepcopy"
    /\ \E n \in Reach(heap, ret.a) :
          /\ heap[n].type \in PhraseTypes
          /\ Mutated(set_head(heap, n, WordZ))

(* n.add_coordinate(z) on a coordination of the copy *)
CopyAddCoordinate ==
    /\ op = "deepcopy"
    /\ \E n \in Reach(heap, ret.a) :
          /\ heap[n].type = COORDINATION
          /\ Mutated([heap EXCEPT ![n].coords = Append(@, WordZ)])

(* n.set_value(z) on a Var of the copy *)
CopySetValue ==
    /\ op = "deepcopy"
    /\ \E n \in Reach(heap, ret.a) :
          /\ heap[n].type = VAR
          /\ Mutated(set_value(heap, n, WordZ))

NextCopy ==
    \/ BuildPhrase
    \/ BuildHeadPhrase
    \/ BuildNounPhrase
    \/ BuildClause
    \/ BuildCoordination
    \/ AddCoordinate
    \/ AddModifier
    \/ DeepCopy
    \/ CopySetFeature
    \/ CopyDelFeature
    \/ CopyAddModifier
    \/ CopyDelModifier
    \/ CopySetHead
    \/ CopyAddCoordinate
    \/ CopySetValue

SpecCopy == Init /\ [][NextCopy]_vars

(* C1: the copy of an element of any variant is another object, and is
   structurally equal to the element *)
C1_CopyIsEqual ==
    op = "deepcopy" => (ret.a # args.target /\ Eq(heap, args.target, ret.a))

(* C2: a change made to the copy, or to a node under it, changes neither
   the original, nor a node under the original, nor an ancestor of it *)
C2_CopyIsIndependent ==
    op = "mutate" =>
        \A n \in Reach(pre, args.target) \cup Ancestors(pre, args.target) :
            heap[n] = pre[n]

(***************************************************************************)
(* The serialisation visitors of visitors.py: PrintVisitor and the four    *)
(* classes derived from it.  enters and exits count the calls that         *)
(* returned; raised tells that the last call raised.                       *)
(***************************************************************************)
MaxEnters == 3

VisitorKinds == {"PrintVisitor", "XmlVisitor", "ReprVisitor", "StrVisitor",
                 "SimpleStrVisitor"}
Tags == {"NounPhrase", "child"}

(* PrintVisitor.__init__(depth, indent, sep) *)
PrintVisitor_init(kind, depth) ==
    [NoVisitor EXCEPT !.kind = kind, !.depth = depth, !.depth0 = depth]

(* XmlVisitor.__init__: the constructor of PrintVisitor, then
   self.ancestors.append('child') *)
XmlVisitor_init(depth) ==
    [PrintVisitor_init("XmlVisitor", depth) EXCEPT !.ancestors = <<"child">>]

(* ReprVisitor, StrVisitor and SimpleStrVisitor only call the constructor
   of PrintVisitor and set data and do_indent *)
Visitor_init(kind, depth) ==
    IF kind = "XmlVisitor" THEN XmlVisitor_init(depth)
    ELSE PrintVisitor_init(kind, depth)

(* PrintVisitor.enter(tag) *)
enter(v, tag) ==
    [v EXCEPT !.ancestors = Append(@, tag), !.depth = @ + 1,
              !.enters = @ + 1, !.raised = FALSE]

(* PrintVisitor.exit() *)
exit(v) ==
    IF Len(v.ancestors) = 0 THEN [v EXCEPT !.raised = TRUE]
    ELSE [v EXCEPT !.ancestors = SubSeq(@, 1, Len(@) - 1), !.depth = @ - 1,
                   !.exits = @ + 1, !.raised = FALSE]

Visited(name, v) ==
    /\ vis' = v
    /\ op' = name
    /\ UNCHANGED <<heap, args, ret, pre, ctx, onto, calls>>

NewVisitor ==
    /\ op = "lexicon"
    /\ \E kind \in VisitorKinds, depth \in {0, 1} :
          Visited("visitor", Visitor_init(kind, depth))

Enter ==
    /\ op \in {"visitor", "enter", "exit"}
    /\ vis.enters < MaxEnters
    /\ \E tag \in Tags : Visited("enter", enter(vis, tag))

Exit ==
    /\ op \in {"visitor", "enter", "exit"}
    /\ Visited("exit", exit(vis))

NextVisitor ==
    \/ NewVisitor
    \/ Enter
    \/ Exit

SpecVisitor == Init /\ [][NextVisitor]_vars

(***************************************************************************)
(* Referring expressions (reg.py).  The discourse context and the ontology *)
(* are objects the caller passes in; their classes are not part of the     *)
(* sources at hand.  context.referents is a dict, kept here as the         *)
(* sequence of its items in insertion order; a key is a str (a name) or an *)
(* element.  The ontology answers two queries over qualified names         *)
(* ':name': best_entity_type(e) and entities_of_type(t).                   *)
(***************************************************************************)
MaxCalls == 2

StrKey(name) == [str |-> TRUE, name |-> name, elt |-> NULL]
EltKey(a) == [str |-> FALSE, name |-> "", elt |-> a]

(* k1 == k2 for two keys of a dict: a str never equals an element *)
KeyEq(h, k1, k2) ==
    IF k1.str /\ k2.str THEN k1.name = k2.name
    ELSE IF k1.str \/ k2.str THEN FALSE
    ELSE k1.elt = k2.elt \/ Eq(h, k1.elt, k2.elt)

(* key in d *)
dict_contains(h, d, key) == \E i \in 1..Len(d) : KeyEq(h, d[i].key, key)
(* d[key] *)
dict_get(h, d, key) == d[CHOOSE i \in 1..Len(d) : KeyEq(h, d[i].key, key)]
(* d[key] = (is_unique, refexp) *)
dict_set(h, d, key, is_unique, refexp) ==
    IF dict_contains(h, d, key)
    THEN [i \in 1..Len(d) |->
            IF KeyEq(h, d[i].key, key)
            THEN [d[i] EXCEPT !.unique = is_unique, !.expr = refexp]
            ELSE d[i]]
    ELSE Append(d, [key |-> key, unique |-> is_unique, expr |-> refexp])

(* ':' + name, and name.rpartition(':')[2] *)
Qualify(name) == <<":", name>>
Strip(q) == q[Len(q)]

(* the names the referents carry and what the ontology knows of them *)
ProperNames == {"Bob"}
TypeOf(name) == IF name \in ProperNames THEN "person" ELSE "thing"
(* onto.best_entity_type(e) *)
best_entity_type(o, e) == Qualify(TypeOf(Strip(e)))
(* onto.entities_of_type(t) *)
entities_of_type(o, t) ==
    IF Strip(t) = "thing" THEN {Qualify(n) : n \in o.things}
    ELSE {Qualify(n) : n \in ProperNames}

(* referent[0].isupper() *)
StartsUpper(name) == name \in ProperNames
(* re.search(r"([^0-9]+)([0-9]+)$", referent): the digits the name ends in *)
TrailingNumber(name) == IF name = "x1" THEN "1" ELSE NoVal

(* Element.__getattr__(name): the feature of that name, AttributeError when
   the element has none; '_features' names no feature *)
Element_getattr(h, a, name) ==
    IF name \in FeatKeys /\ h[a].features[name] # NoVal
    THEN [err |-> FALSE, v |-> h[a].features[name]]
    ELSE [err |-> TRUE, v |-> NoVal]

(* Element.has_feature(feature, value) *)
has_feature(h, a, k, v) == h[a].features[k] # NoVal /\ h[a].features[k] = v

(* what a call leaves: heap, context.referents, the result, whether it
   raised *)
Ref(h, d, a) == [h |-> h, d |-> d, a |-> a, err |-> FALSE]
RefRaised(h, d) == [h |-> h, d |-> d, a |-> NULL, err |-> TRUE]

(* the test "count == 0" alone *)
NoDistractors(same_type, referent) == same_type = {}
(* the test "count == 0 or (count == 1 and distractors[0] == referent)" *)
OnlyReferent(same_type, referent) ==
    same_type = {} \/ same_type = {referent}

(* "result = NounPhrase(target, features=target._features)", followed by
   the statements of the branch it stands in *)
wrap_target(h, d, target, proper) ==
    LET f == Element_getattr(h, target, "_features")
        np == NewNounPhrase(h, target, NULL, NoFeats, NULL)
    IN  IF f.err THEN RefRaised(h, d)
        ELSE IF proper
        THEN Ref(set_feature(np.h, np.a, "PROPER", "true"), d, np.a)
        ELSE Ref(np.h, dict_set(np.h, d, EltKey(target), FALSE, np.a), np.a)

(* the handlers "except AttributeError" and "except Exception" of
   _do_initial_reference: an exception raised in a handler leaves the call *)
fallback_reference(h, d, target) == wrap_target(h, d, target, FALSE)

(* "np.spec = Word(word, 'DETERMINER')", w being the new Word *)
with_spec(w, np, d) == Ref([w.h EXCEPT ![np].spec = w.a], d, np)

(* "context.referents[referent] = (True, deepcopy(result))" and
   "result.spec = Word('the', 'DETERMINER')", c being the copy *)
cache_unique(d, referent, result, c) ==
    with_spec(NewWord(c.h, "the", "DETERMINER", NoFeats, NULL), result,
              dict_set(c.h, d, StrKey(referent), TRUE, c.a))

(* the "if count == 0 or ..." branch of _do_initial_reference *)
unique_reference(h, d, referent, result) ==
    cache_unique(d, referent, result, deepcopy(h, result))

(* its "else" branch *)
distinct_reference(h, d, referent, result) ==
    LET d1 == dict_set(h, d, StrKey(referent), FALSE, result)
        number == TrailingNumber(referent)
        w  == NewWord(h, number, "ANY", NoFeats, NULL)
        h1 == add_modifier(w.h, result, "complements", w.a)
    IN  IF number = NoVal THEN Ref(h, d1, result)
        ELSE Ref(set_feature(h1, result, "PROPER", "true"), d1, result)

(* _do_initial_reference(target, context=...) *)
do_initial_reference(h, d, o, target) ==
    LET referent == h[target].value
    IN  IF referent = "" THEN fallback_reference(h, d, target)
        ELSE IF StartsUpper(referent)
        THEN LET r == wrap_target(h, d, target, TRUE)
             IN  IF r.err THEN fallback_reference(h, d, target) ELSE r
        ELSE IF ~o.present \/ o.raises THEN fallback_reference(h, d, target)
        ELSE
        LET entity_type == Strip(best_entity_type(o, Qualify(referent)))
            w  == NewWord(h, entity_type, "NOUN", NoFeats, NULL)
            np == NewNounPhrase(w.h, w.a, NULL, NoFeats, NULL)
            same_type == {Strip(x) :
                            x \in entities_of_type(o, Qualify(entity_type))}
        IN  IF OnlyReferent(same_type, referent)
            THEN unique_reference(np.h, d, referent, np.a)
            ELSE distinct_reference(np.h, d, referent, np.a)

(* "result = deepcopy(refexp); result.spec = Word('the', 'DETERMINER')",
   c being the copy *)
copy_with_the(d, c) ==
    with_spec(NewWord(c.h, "the", "DETERMINER", NoFeats, NULL), c.a, d)

(* a repeated reference that hands out the cached object in either case *)
repeat_cached(h, d, e) ==
    IF e.unique
    THEN with_spec(NewWord(h, "the", "DETERMINER", NoFeats, NULL), e.expr, d)
    ELSE IF ~has_feature(h, e.expr, "PROPER", "true")
    THEN with_spec(NewWord(h, "a", "DETERMINER", NoFeats, NULL), e.expr, d)
    ELSE Ref(h, d, e.expr)

(* the body of _do_repeated_reference, e being context.referents[referent] *)
repeat_entry(h, d, e) ==
    IF e.unique THEN copy_with_the(d, deepcopy(h, e.expr))
    ELSE IF ~has_feature(h, e.expr, "PROPER", "true")
    THEN with_spec(NewWord(h, "a", "DETERMINER", NoFeats, NULL), e.expr, d)
    ELSE Ref(h, d, e.expr)

(* _do_repeated_reference(referent, context=...) *)
do_repeated_reference(h, d, referent) ==
    repeat_entry(h, d, dict_get(h, d, EltKey(referent)))

(* which branch generate_ref_exp(referent, context=...) takes *)
ref_exp_path(h, d, referent) ==
    IF h[referent].type \notin {STRING_T, WORD} THEN "as is"
    ELSE IF dict_contains(h, d, EltKey(referent)) THEN "repeated"
    ELSE "initial"

(* generate_ref_exp(referent, context=...) *)
generate_ref_exp(h, d, o, referent) ==
    CASE ref_exp_path(h, d, referent) = "as is" -> Ref(h, d, referent)
      [] ref_exp_path(h, d, referent) = "repeated" ->
            do_repeated_reference(h, d, referent)
      [] OTHER -> do_initial_reference(h, d, o, referent)

(* the caller takes a context, with or without an ontology; an ontology is
   one that answers or one whose queries raise *)
NewContext ==
    /\ op = "lexicon"
    /\ \E present \in BOOLEAN, raises \in BOOLEAN, things \in SUBSET {"x", "y"} :
          /\ present \/ (~raises /\ things = {})
          /\ onto' = [present |-> present, raises |-> raises,
                      things |-> things]
    /\ ctx' = NoContext
    /\ op' = "context"
    /\ UNCHANGED <<heap, args, ret, pre, vis, calls>>

Referents == {WordX, WordY, StringX, WordBob, WordX1, VarV}

(* the context holds an entry for r, under its name or under the element *)
Mentioned(h, d, r) ==
    dict_contains(h, d, EltKey(r)) \/ dict_contains(h, d, StrKey(h[r].value))

(* the context holds r under its name as a globally unique referent *)
CachedUnique(h, d, r) ==
    /\ dict_contains(h, d, StrKey(h[r].value))
    /\ dict_get(h, d, StrKey(h[r].value)).unique

(* the call generate_ref_exp(r, context=ctx) took the branch path and left
   res; pre keeps the heap, ret.cached whether r was cached as unique when
   the call began *)
Referred(r, path, res) ==
    /\ heap' = res.h
    /\ ctx' = [ctx EXCEPT !.referents = res.d]
    /\ ret' = [NoRet EXCEPT !.a = res.a, !.err = res.err, !.path = path,
                           !.cached = CachedUnique(heap, ctx.referents, r)]
    /\ args' = [NoArgs EXCEPT !.target = r]
    /\ op' = "generate_ref_exp"
    /\ pre' = heap
    /\ calls' = calls + 1
    /\ UNCHANGED <<vis, onto>>

GenerateRefExp ==
    /\ op \in {"context", "generate_ref_exp"}
    /\ calls < MaxCalls
    /\ \E r \in Referents :
          Referred(r, ref_exp_path(heap, ctx.referents, r),
                   generate_ref_exp(heap, ctx.referents, onto, r))

NextReg ==
    \/ NewContext
    \/ GenerateRefExp

SpecReg == Init /\ [][NextReg]_vars

(* "is_unique, refexp = context.referents[referent]" and what follows it,
   key being what the caller names the referent by; a key the dict does not
   hold is a KeyError *)
repeated_reference(h, d, key) ==
    IF dict_contains(h, d, key) THEN repeat_entry(h, d, dict_get(h, d, key))
    ELSE RefRaised(h, d)

(* the names under which _do_initial_reference caches *)
RefNames == {"x", "y", "x1"}

(* the call _do_repeated_reference(name, context=ctx) left res; args keeps
   the entry the context held for name when the call began *)
Repeated(name, res) ==
    /\ heap' = res.h
    /\ ctx' = [ctx EXCEPT !.referents = res.d]
    /\ ret' = [NoRet EXCEPT !.a = res.a, !.err = res.err, !.path = "repeated",
                           !.cached = /\ dict_contains(heap, ctx.referents,
                                                         StrKey(name))
                                         /\ dict_get(heap, ctx.referents,
                                                     StrKey(name)).unique]
    /\ args' = [name |-> name,
                held |-> dict_contains(heap, ctx.referents, StrKey(name)),
                entry |-> IF dict_contains(heap, ctx.referents, StrKey(name))
                          THEN dict_get(heap, ctx.referents, StrKey(name))
                          ELSE [key |-> StrKey(name), unique |-> FALSE,
                                expr |-> NULL]]
    /\ op' = "_do_repeated_reference"
    /\ pre' = heap
    /\ calls' = calls + 1
    /\ UNCHANGED <<vis, onto>>

RepeatedReference ==
    /\ op \in {"generate_ref_exp", "_do_repeated_reference"}
    /\ calls < MaxCalls
    /\ \E name \in RefNames :
          Repeated(name, repeated_reference(heap, ctx.referents, StrKey(name)))

NextRep ==
    \/ NewContext
    \/ GenerateRefExp
    \/ RepeatedReference

SpecRep == Init /\ [][NextRep]_vars

(***************************************************************************)
(* Determiners and pronouns: constituents(), optimise_determiner and       *)
(* optimise_ref_exp.  The lexicon and the LinguisticContext are not among  *)
(* the sources; their parts follow the specification.                      *)
(***************************************************************************)
MaxSteps == 4

(* "for x in s: yield from x.constituents()" *)
RECURSIVE constituents(_, _)
RECURSIVE yield_each(_, _, _)
yield_each(h, s, i) ==
    IF i > Len(s) THEN <<>>
    ELSE constituents(h, s[i]) \o yield_each(h, s, i + 1)

(* "for x in o.constituents(): yield from x.constituents()" *)
yield_from(h, o) ==
    IF o = NULL THEN <<>> ELSE yield_each(h, constituents(h, o), 1)

(* Phrase.yield_front_modifiers, yield_pre_modifiers, yield_complements and
   yield_post_modifiers: the above for each o of the list *)
RECURSIVE yield_modifiers(_, _, _)
yield_modifiers(h, mods, i) ==
    IF i > Len(mods) THEN <<>>
    ELSE yield_from(h, mods[i]) \o yield_modifiers(h, mods, i + 1)

(* a walk that lists a phrase's head before its modifiers *)
head_first(h, a) ==
    IF h[a].type = ELEMENT THEN <<>>
    ELSE IF h[a].type \in {STRING_T, WORD, VAR} THEN <<a>>
    ELSE IF h[a].type = COORDINATION
         THEN <<a>> \o yield_each(h, h[a].coords, 1)
    ELSE IF h[a].type = CLAUSE
         THEN <<a>> \o constituents(h, h[a].subj)
                \o yield_modifiers(h, h[a].pre_modifiers, 1)
                \o constituents(h, h[a].vp)
                \o yield_modifiers(h, h[a].complements, 1)
                \o yield_modifiers(h, h[a].post_modifiers, 1)
    ELSE <<a>> \o yield_from(h, h[a].head)
           \o (IF h[a].type = NOUN_PHRASE THEN yield_from(h, h[a].spec)
               ELSE <<>>)
           \o yield_modifiers(h, h[a].front_modifiers, 1)
           \o yield_modifiers(h, h[a].pre_modifiers, 1)
           \o yield_modifiers(h, h[a].complements, 1)
           \o yield_modifiers(h, h[a].post_modifiers, 1)

(* Element.constituents and its overrides *)
constituents(h, a) ==
    IF h[a].type = ELEMENT THEN <<>>
    ELSE IF h[a].type \in {STRING_T, WORD, VAR} THEN <<a>>
    ELSE IF h[a].type = COORDINATION
         THEN <<a>> \o yield_each(h, h[a].coords, 1)
    ELSE IF h[a].type = CLAUSE
         THEN <<a>> \o yield_modifiers(h, h[a].pre_modifiers, 1)
                \o constituents(h, h[a].subj)
                \o constituents(h, h[a].vp)
                \o yield_modifiers(h, h[a].complements, 1)
                \o yield_modifiers(h, h[a].post_modifiers, 1)
    ELSE <<a>> \o (IF h[a].type = NOUN_PHRASE THEN yield_from(h, h[a].spec)
                   ELSE <<>>)
           \o yield_modifiers(h, h[a].front_modifiers, 1)
           \o yield_modifiers(h, h[a].pre_modifiers, 1)
           \o yield_from(h, h[a].head)
           \o yield_modifiers(h, h[a].complements, 1)
           \o yield_modifiers(h, h[a].post_modifiers, 1)

(* "x in s" for a list s: some member is x or equals x *)
list_contains(h, s, x) == \E i \in 1..Len(s) : s[i] = x \/ Eq(h, s[i], x)
(* "x in s[-1:]" *)
in_last(h, s, x) == Len(s) > 0 /\ list_contains(h, <<s[Len(s)]>>, x)

(* lexicon.guess_phrase_gender(phrase) *)
guess_phrase_gender(h, a) ==
    IF h[a].type = COORDINATION THEN "epicene"
    ELSE IF h[a].type \in PhraseTypes /\ h[h[a].head].value \in ProperNames
    THEN "masculine"
    ELSE "neuter"
(* lexicon.guess_phrase_number(phrase) *)
guess_phrase_number(h, a) ==
    IF h[a].type = COORDINATION THEN "plural" ELSE "singular"

(* "string[0] in 'aeiouy'" for the names at hand *)
StartsVowel(name) == name \in {"y"}

(* the list "distractors" of optimise_determiner *)
distractors(h, phrase, np_phrases) ==
    SelectSeq(np_phrases,
              LAMBDA x : h[x].type \in PhraseTypes
                           /\ Eq(h, h[phrase].head, h[x].head))

(* which branch optimise_determiner takes for a NounPhrase, d being its
   distractors *)
determiner_branch(h, phrase, d) ==
    IF has_feature(h, phrase, "PROPER", "true")
         \/ has_feature(h, phrase, "cat", "PRONOUN")
    THEN "proper"
    ELSE IF ~has_feature(h, h[phrase].head, "cat", "PRONOUN")
              /\ in_last(h, d, phrase) /\ Len(d) = 1
    THEN "the"
    ELSE IF guess_phrase_number(h, phrase) # "plural"
              /\ ~has_feature(h, h[phrase].head, "cat", "PRONOUN")
    THEN "indefinite"
    ELSE "none"

(* "phrase.spec = e", e being the new Element or Word *)
assign_spec(e, phrase) == Res([e.h EXCEPT ![phrase].spec = e.a], TRUE)

(* "if not phrase.spec: phrase.spec = Element()" *)
default_spec(h, phrase) ==
    IF ~Truthy(h, h[phrase].spec)
    THEN assign_spec(NewElement(h, NoFeats, NULL), phrase)
    ELSE Res(h, TRUE)

(* the "indefinite" branch: phrase.head.string is an AttributeError for a
   head that is no String, Word or Var *)
indefinite_spec(h, phrase) ==
    IF h[h[phrase].head].type \notin {STRING_T, WORD, VAR} THEN Raised(h)
    ELSE assign_spec(NewWord(h, IF StartsVowel(h[h[phrase].head].value)
                                THEN "an" ELSE "a",
                             "DETERMINER", NoFeats, NULL), phrase)

(* optimise_determiner(phrase, np_phrases): the phrase is returned, changed
   in place *)
optimise_determiner(h, phrase, np_phrases) ==
    IF h[phrase].type # NOUN_PHRASE THEN Res(h, TRUE)
    ELSE CASE determiner_branch(h, phrase, distractors(h, phrase, np_phrases))
                = "proper" -> default_spec(h, phrase)
           [] determiner_branch(h, phrase, distractors(h, phrase, np_phrases))
                = "the" ->
                assign_spec(NewWord(h, "the", "DETERMINER", NoFeats, NULL),
                            phrase)
           [] determiner_branch(h, phrase, distractors(h, phrase, np_phrases))
                = "indefinite" -> indefinite_spec(h, phrase)
           [] OTHER -> Res(h, TRUE)

(* a copy that shares the children of the original *)
shallow_copy(h, a) == [h |-> Append(h, h[a]), a |-> Len(h) + 1, err |-> FALSE]
(* copy(phrase) of the module copy: the new object is asked for
   '__setstate__' before it has any attribute, the lookup reaches
   Element.__getattr__, and that raises Exception('flag!') for an object
   without 'features' *)
copy(h, a) == [h |-> h, a |-> NULL, err |-> TRUE]

(* the PronounUse optimise_ref_exp chooses for np in the sentence phrase *)
pronoun_use(h, phrase, np) ==
    IF h[phrase].type # CLAUSE THEN "subjective"
    ELSE IF np = h[phrase].subj THEN "subjective"
    ELSE IF list_contains(h, constituents(h, h[phrase].subj), np)
              /\ list_contains(h, constituents(h, h[phrase].vp), np)
    THEN "reflexive"
    ELSE IF list_contains(h, constituents(h, h[phrase].vp), np)
    THEN "objective"
    ELSE "subjective"

(* lexicon.pronoun_for_features(...): the word for a gender and a use *)
pronoun_for_features(gender, use) ==
    CASE use = "reflexive" ->
            (IF gender = "masculine" THEN "himself" ELSE "itself")
      [] use = "objective" -> (IF gender = "masculine" THEN "him" ELSE "it")
      [] OTHER -> (IF gender = "masculine" THEN "he" ELSE "it")

(* pronominalise(np, gender, use, person): "np._features.items()" is
   evaluated before the lexicon is asked *)
pronominalise(h, np, gender, use) ==
    IF Element_getattr(h, np, "_features").err
    THEN [h |-> h, a |-> NULL, err |-> TRUE]
    ELSE LET w == NewWord(h, pronoun_for_features(gender, use), "PRONOUN",
                          NoFeats, NULL)
         IN  [h |-> w.h, a |-> w.a, err |-> FALSE]

(* the end of the loop body: "processed_ids.update(...)", "unspec_np =
   deepcopy(np); unspec_np.spec = Element(); uttered.append(unspec_np)" and,
   for an np that was not replaced, optimise_determiner(np, phrases);
   seen are the constituents of np, c is the deep copy, e the new Element,
   fixed what optimise_determiner left *)
loop_state(st, seen, c, e, fixed) ==
    [h |-> [fixed.h EXCEPT ![c].spec = e],
     uttered |-> Append(st.uttered, c),
     processed |-> st.processed \cup seen,
     err |-> fixed.err]
with_unspec(st, np, phrases, replaced, seen, c, e) ==
    loop_state(st, seen, c.a, e.a,
               IF replaced THEN Res(e.h, TRUE)
               ELSE optimise_determiner(e.h, np, phrases))
uttered_np(st, np, phrases, replaced, seen, c) ==
    with_unspec(st, np, phrases, replaced, seen, c,
                NewElement(c.h, NoFeats, NULL))
note_processed(h, st, np, phrases, replaced) ==
    uttered_np(st, np, phrases, replaced, Range(constituents(h, np)),
               deepcopy(h, np))

(* "replace_element_with_id(result, id(np), pronoun); replaced = True",
   r being what the rewrite left *)
replaced_np(st, np, phrases, r) ==
    IF r.err THEN [st EXCEPT !.h = r.h, !.err = TRUE]
    ELSE note_processed(r.h, st, np, phrases, TRUE)
(* "pronoun = pronominalise(np, gender, use, person)" and the rewrite, p
   being what pronominalise left *)
substituted(st, result, np, phrases, p) ==
    IF p.err THEN [st EXCEPT !.h = p.h, !.err = TRUE]
    ELSE replaced_np(st, np, phrases,
                     replace_element_with_id(p.h, result, np, p.a))

(* the body of "for np in nps" for an np that was not processed before *)
process_np(st, phrase, result, np, gender, phrases) ==
    IF in_last(st.h, phrases, np)
    THEN substituted(st, result, np, phrases,
                     pronominalise(st.h, np, gender,
                                   pronoun_use(st.h, phrase, np)))
    ELSE note_processed(st.h, st, np, phrases, FALSE)

(* "phrases = [x for x in (context.np_stack + uttered) if
   lexicon.guess_phrase_gender(x) == gender]" *)
salient(h, np_stack, uttered, gender) ==
    SelectSeq(np_stack \o uttered,
              LAMBDA x : guess_phrase_gender(h, x) = gender)

(* "for np in nps: ..." from the i-th np on *)
RECURSIVE optimise_nps(_, _, _, _, _, _)
optimise_nps(st, np_stack, phrase, result, nps, i) ==
    IF st.err \/ i > Len(nps) THEN st
    ELSE IF nps[i] \in st.processed
    THEN optimise_nps(st, np_stack, phrase, result, nps, i + 1)
    ELSE optimise_nps(
            process_np(st, phrase, result, nps[i],
                       guess_phrase_gender(st.h, nps[i]),
                       salient(st.h, np_stack, st.uttered,
                               guess_phrase_gender(st.h, nps[i]))),
            np_stack, phrase, result, nps, i + 1)

(* "nps = [x for x in phrase.constituents() if test(x)]" *)
candidates(h, phrase) ==
    SelectSeq(constituents(h, phrase),
              LAMBDA x : h[x].type \in {NOUN_PHRASE, COORDINATION})

(* context.add_sentence(phrase): the noun phrases of the sentence go on the
   salience stack *)
add_sentence(h, c, phrase) ==
    [c EXCEPT !.np_stack = c.np_stack \o candidates(h, phrase)]

(* "context.add_sentence(phrase); return result", st being what the loop
   left *)
optimised(c, phrase, result, st) ==
    IF st.err THEN [h |-> st.h, c |-> c, a |-> NULL, err |-> TRUE]
    ELSE [h |-> st.h, c |-> add_sentence(st.h, c, phrase), a |-> result,
          err |-> FALSE]

(* optimise_ref_exp past "result = copy(phrase)", r being what copy left *)
optimise_copy(c, phrase, r) ==
    IF r.err THEN [h |-> r.h, c |-> c, a |-> NULL, err |-> TRUE]
    ELSE optimised(c, phrase, r.a,
                   optimise_nps([h |-> r.h, uttered |-> <<>>,
                                 processed |-> {}, err |-> FALSE],
                                c.np_stack, phrase, r.a,
                                candidates(r.h, phrase), 1))

(* optimise_ref_exp(phrase, context=c) *)
optimise_ref_exp(h, c, phrase) == optimise_copy(c, phrase, copy(h, phrase))

(* the names a step leaves behind: the operation, its argument, its result *)
Step(name, target, h, c, a, err) ==
    /\ heap' = h
    /\ ctx' = c
    /\ ret' = [NoRet EXCEPT !.a = a, !.err = err]
    /\ args' = [NoArgs EXCEPT !.target = target]
    /\ op' = name
    /\ pre' = heap
    /\ calls' = calls + 1
    /\ UNCHANGED <<vis, onto>>

OptOps == {"context", "generate_ref_exp", "noun_phrase", "clause",
           "add_complement", "add_sentence", "optimise_determiner",
           "optimise_ref_exp"}

(* the phrases and sentences the caller holds: the trees built after the
   lexicon that are part of no other tree *)
Sentences ==
    {a \in Addrs(heap) : /\ a > Len(Lexicon)
                         /\ heap[a].type \in {NOUN_PHRASE, CLAUSE}
                         /\ heap[a].parent = NULL}
NounPhrases == {a \in Sentences : heap[a].type = NOUN_PHRASE}

(* NounPhrase(Word(name, pos), spec), tagged PROPER = "true" or not *)
tagged(np, proper) ==
    IF proper THEN [h |-> set_feature(np.h, np.a, "PROPER", "true"), a |-> np.a]
    ELSE np
with_determiner(w, d, proper) ==
    tagged(NewNounPhrase(d.h, w.a, d.a, NoFeats, NULL), proper)
with_head(w, det, proper) ==
    with_determiner(w, IF det = NoVal THEN [h |-> w.h, a |-> NULL]
                       ELSE NewWord(w.h, det, "DETERMINER", NoFeats, NULL),
                    proper)
MadePhrase(np) == Step("noun_phrase", np.a, np.h, ctx, np.a, FALSE)
MakeNounPhrase ==
    /\ op \in OptOps
    /\ calls < MaxSteps
    /\ \E name \in {"x", "y"}, pos \in {"NOUN", "PRONOUN"},
          det \in {NoVal, "the"}, proper \in BOOLEAN :
          /\ proper => pos = "NOUN"
          /\ name = "y" => (pos = "NOUN" /\ det = NoVal /\ ~proper)
          /\ MadePhrase(with_head(NewWord(heap, name, pos, NoFeats, NULL),
                                  det, proper))

(* Clause(subj, VerbPhrase(Word('v', 'VERB'), obj)) *)
with_object(vp, obj) ==
    IF obj = NULL THEN vp
    ELSE [h |-> add_modifier(vp.h, vp.a, "complements", obj), a |-> vp.a]
with_verb(w, obj) ==
    with_object(NewHeadPhrase(w.h, VERB_PHRASE, w.a, NoFeats, NULL), obj)
MadeClause(c) == Step("clause", c.a, c.h, ctx, c.a, FALSE)
clause_of(subj, vp) == NewClause(vp.h, subj, vp.a, NoFeats, NULL)
MakeClause ==
    /\ op \in OptOps
    /\ calls < MaxSteps
    /\ \E subj \in NounPhrases, obj \in NounPhrases \cup {NULL} :
          MadeClause(clause_of(subj,
                with_verb(NewWord(heap, "v", "VERB", NoFeats, NULL), obj)))

(* outer.add_complement(inner) *)
AddComplement ==
    /\ op \in OptOps
    /\ calls < MaxSteps
    /\ \E outer \in NounPhrases : \E inner \in NounPhrases \ {outer} :
          Step("add_complement", outer,
               add_modifier(heap, outer, "complements", inner), ctx, NULL,
               FALSE)

(* context.add_sentence(s) *)
AddSentence ==
    /\ op \in OptOps
    /\ calls < MaxSteps
    /\ \E s \in Sentences :
          Step("add_sentence", s, heap, add_sentence(heap, ctx, s), NULL,
               FALSE)

(* optimise_determiner(phrase, np_phrases), the list being empty or the
   salience stack *)
DeterminerFixed(phrase, r) ==
    Step("optimise_determiner", phrase, r.h, ctx, phrase, r.err)
OptimiseDeterminer ==
    /\ op \in OptOps
    /\ calls < MaxSteps
    /\ \E phrase \in NounPhrases, np_phrases \in {<<>>, ctx.np_stack} :
          DeterminerFixed(phrase,
                          optimise_determiner(heap, phrase, np_phrases))

(* optimise_ref_exp(phrase, context=ctx) *)
Optimised(phrase, r) ==
    Step("optimise_ref_exp", phrase, r.h, r.c, r.a, r.err)
OptimiseRefExp ==
    /\ op \in OptOps
    /\ calls < MaxSteps
    /\ \E phrase \in Sentences :
          Optimised(phrase, optimise_ref_exp(heap, ctx, phrase))

(* the caller takes a context whose ontology answers and holds one thing
   or two *)
NewDiscourse ==
    /\ op = "lexicon"
    /\ \E things \in {{"y"}, {"x", "y"}} :
          onto' = [present |-> TRUE, raises |-> FALSE, things |-> things]
    /\ ctx' = NoContext
    /\ op' = "context"
    /\ UNCHANGED <<heap, args, ret, pre, vis, calls>>

NextOpt ==
    \/ NewDiscourse
    \/ GenerateRefExp
    \/ MakeNounPhrase
    \/ MakeClause
    \/ AddComplement
    \/ AddSentence
    \/ OptimiseDeterminer
    \/ OptimiseRefExp

SpecOpt == Init /\ [][NextOpt]_vars

(***************************************************************************)
(* Element.accept(visitor).  A visitor is described by the names of the    *)
(* attributes it has, whether they are callable, and the number of         *)
(* parameters inspect.signature reports for them.                          *)
(***************************************************************************)
MaxArity == 3

(* VisitorNames[type], which Element.__init__ stores as _visitor_name *)
VisitorNames(type) ==
    CASE type = ELEMENT -> "visit_element"
      [] type = STRING_T -> "visit_string"
      [] type = WORD -> "visit_word"
      [] type = VAR -> "visit_var"
      [] type = CLAUSE -> "visit_clause"
      [] type = COORDINATION -> "visit_coordination"
      [] type = PHRASE -> "visit_phrase"
      [] type = NOUN_PHRASE -> "visit_np"
      [] type = VERB_PHRASE -> "visit_vp"
      [] type = PREPOSITIONAL_PHRASE -> "visit_pp"
      [] type = ADJECTIVE_PHRASE -> "visit_adjp"
      [] type = ADVERB_PHRASE -> "visit_advp"

(* "if len(sig.parameters) == 1: return m(self)", "if len(sig.parameters)
   == 2: return m(self, element)", and the end of the method *)
call_handler(name, arity) ==
    IF arity \in {1, 2} THEN [called |-> name, err |-> FALSE]
    ELSE [called |-> NoVal, err |-> FALSE]

(* Element.accept(visitor, element) on the node at address a: getattr
   raises AttributeError for a name the visitor lacks, an attribute that is
   not callable is a ValueError *)
accept(h, a, v) ==
    IF VisitorNames(h[a].type) \notin v.handlers
    THEN [called |-> NoVal, err |-> TRUE]
    ELSE IF ~v.callable THEN [called |-> NoVal, err |-> TRUE]
    ELSE call_handler(VisitorNames(h[a].type), v.arity)

HandlerNames == {"visit_element", "visit_word", "visit_phrase", "visit_pp"}

Accepted(a, v, r) ==
    /\ op' = "accept"
    /\ args' = [NoArgs EXCEPT !.target = a, !.visitor = v]
    /\ ret' = [NoRet EXCEPT !.called = r.called, !.err = r.err]
    /\ UNCHANGED <<heap, pre, vis, ctx, onto, calls>>

Accept ==
    \E a \in Addrs(heap), handlers \in SUBSET HandlerNames,
       arity \in 0..MaxArity, callable \in BOOLEAN :
       Accepted(a, [handlers |-> handlers, arity |-> arity,
                    callable |-> callable],
                accept(heap, a, [handlers |-> handlers, arity |-> arity,
                                 callable |-> callable]))

NextAccept == Accept

SpecAccept == Init /\ [][NextAccept]_vars

(***************************************************************************)
(* Walking a sentence.  A sentence of one of the variants is grown with    *)
(* fresh words and phrases, under the root or under a phrase nested in     *)
(* it, and then n.constituents() is listed for one of its phrases n, which *)
(* args.target names.  calls counts the additions.                         *)
(***************************************************************************)
MaxGrow == 2

GrowKinds == {"word", "pp"}

(* Word('w', 'NOUN'), or PrepositionalPhrase(Word('p'), Word('w')) *)
Fresh(h, kind) ==
    IF kind = "word" THEN NewWord(h, "w", "NOUN", NoFeats, NULL)
    ELSE LET hd == NewWord(h, "p", "PREPOSITION", NoFeats, NULL)
             pp == NewHeadPhrase(hd.h, PREPOSITIONAL_PHRASE, hd.a, NoFeats, NULL)
             w  == NewWord(pp.h, "w", "NOUN", NoFeats, NULL)
         IN  [h |-> add_modifier(w.h, pp.a, "complements", w.a), a |-> pp.a]

(* the sentence walked: Phrase(), NounPhrase(y, x), VerbPhrase(<y x>),
   Clause(x, y) or Coordination(x) *)
Plant ==
    /\ op = "lexicon"
    /\ \/ Built(NewPhrase(heap, PHRASE, NoFeats, NULL))
       \/ Built(NewNounPhrase(heap, WordY, WordX, NoFeats, NULL))
       \/ Built(NewHeadPhrase(heap, VERB_PHRASE, Inner, NoFeats, NULL))
       \/ Built(NewClause(heap, WordX, WordY, NoFeats, NULL))
       \/ Built(NewCoordination(heap, <<WordX>>, "and", NoFeats, NULL))

Grown(h) ==
    /\ heap' = h
    /\ calls' = calls + 1
    /\ UNCHANGED <<op, args, ret, pre, vis, ctx, onto>>

(* n.add_front_modifier(m) ... n.add_post_modifier(m) for a fresh m *)
GrowModifier ==
    /\ op = "build"
    /\ calls < MaxGrow
    /\ \E n \in Reach(heap, args.root), slot \in Slots, kind \in GrowKinds :
          /\ IsPhrasal(heap, n)
          /\ Grown(add_modifier(Fresh(heap, kind).h, n, slot,
                                Fresh(heap, kind).a))

(* n.add_coordinate(m) for a fresh m *)
GrowCoordinate ==
    /\ op = "build"
    /\ calls < MaxGrow
    /\ \E n \in Reach(heap, args.root), kind \in GrowKinds :
          /\ heap[n].type = COORDINATION
          /\ Grown([Fresh(heap, kind).h EXCEPT
                      ![n].coords = Append(@, Fresh(heap, kind).a)])

(* list(n.constituents()) for a coordination, clause or phrase n *)
Constituents ==
    /\ op = "build"
    /\ \E n \in Reach(heap, args.root) :
          /\ heap[n].type \in PhraseTypes \cup {CLAUSE, COORDINATION}
          /\ op' = "constituents"
          /\ args' = [args EXCEPT !.target = n]
          /\ UNCHANGED <<heap, ret, pre, vis, ctx, onto, calls>>

NextTree ==
    \/ Plant
    \/ GrowModifier
    \/ GrowCoordinate
    \/ Constituents

SpecTree == Init /\ [][NextTree]_vars

(***************************************************************************)
(* XmlVisitor (visitors.py).  A run keeps the visitor, the tags it         *)
(* entered, the nodes whose opening tag it wrote, and whether it raised.   *)
(* The visitor is written for the element classes of microplanning/struct, *)
(* which name the slots subject, predicate, premodifiers, postmodifiers    *)
(* and hold the name of the visitor's method for their class.              *)
(***************************************************************************)
(* getattr(node, attr), a single element as a list of one *)
attr_value(h, node, attr) ==
    CASE attr = "spec" -> <<h[node].spec>>
      [] attr = "head" -> <<h[node].head>>
      [] attr = "subject" -> <<h[node].subj>>
      [] attr = "predicate" -> <<h[node].vp>>
      [] attr = "coords" -> h[node].coords
      [] attr = "front_modifiers" -> h[node].front_modifiers
      [] attr = "premodifiers" -> h[node].pre_modifiers
      [] attr = "complements" -> h[node].complements
      [] OTHER -> h[node].post_modifiers

(* one call of _process_element or _process_elements: the attribute it
   reads and the tag it enters *)
XmlSlot(attr, name) == [attr |-> attr, name |-> name]
(* the calls of XmlVisitor.phrase, in the order it makes them *)
XmlPhraseSlots ==
    << XmlSlot("premodifiers", "preMod"),
       XmlSlot("head", "head"),
       XmlSlot("complements", "compl"),
       XmlSlot("postmodifiers", "postMod") >>
(* the calls of the method XmlVisitor has for a node of type t *)
XmlSlots(t) ==
    IF t = CLAUSE
    THEN << XmlSlot("front_modifiers", "frontMod"),
            XmlSlot("subject", "subj"),
            XmlSlot("premodifiers", "preMod"),
            XmlSlot("predicate", "vp"),
            XmlSlot("complements", "compl"),
            XmlSlot("postmodifiers", "postMod") >>
    ELSE IF t = NOUN_PHRASE
    THEN <<XmlSlot("spec", "spec")>> \o XmlPhraseSlots
    ELSE IF t = COORDINATION THEN <<XmlSlot("coords", "coord")>>
    ELSE XmlPhraseSlots

XmlRun(v) == [v |-> v, tags |-> <<>>, written |-> <<>>, err |-> FALSE]
XmlRaised(st) == [st EXCEPT !.err = TRUE]
(* self.exit() *)
xml_exit(st) ==
    IF st.err THEN st
    ELSE [st EXCEPT !.v = exit(st.v), !.err = exit(st.v).raised]
(* _get_args(): self.ancestors[-1] is an IndexError on an empty list *)
xml_get_args(st) ==
    IF st.err \/ Len(st.v.ancestors) > 0 THEN st ELSE XmlRaised(st)
(* "self.xml += ..." for node, the text formatted with _get_args() *)
xml_write(st, node) ==
    IF xml_get_args(st).err THEN xml_get_args(st)
    ELSE [st EXCEPT !.written = Append(@, node)]

RECURSIVE xml_accept(_, _, _)
RECURSIVE xml_method(_, _, _)
RECURSIVE xml_calls(_, _, _, _, _)
RECURSIVE xml_each(_, _, _, _)
(* e.accept(visitor): element() takes no node and is not called, string()
   and word() write the node, var() passes on to the value *)
xml_accept(h, st, e) ==
    IF st.err THEN st
    ELSE IF e = NULL THEN XmlRaised(st)
    ELSE IF h[e].type = ELEMENT THEN st
    ELSE IF h[e].type \in {STRING_T, WORD} THEN xml_write(st, e)
    ELSE IF h[e].type = VAR THEN xml_accept(h, st, h[e].obj)
    ELSE xml_method(h, st, e)
(* "for e in elts: e.accept(self)" *)
xml_each(h, st, elts, i) ==
    IF st.err \/ i > Len(elts) THEN st
    ELSE xml_each(h, xml_accept(h, st, elts[i]), elts, i + 1)
(* the calls of _process_element and _process_elements from the i-th on:
   enter(name), getattr(node, attr), accept for the element or for each
   element of the list, exit *)
xml_calls(h, st, node, slots, i) ==
    IF st.err \/ i > Len(slots) THEN st
    ELSE xml_calls(h,
            xml_exit(xml_each(h,
                [st EXCEPT !.v = enter(st.v, slots[i].name),
                           !.tags = Append(@, slots[i].name)],
                attr_value(h, node, slots[i].attr), 1)),
            node, slots, i + 1)
(* XmlVisitor.clause, noun_phrase, phrase or coordination on node: the
   opening tag, the calls for its slots, the closing tag *)
xml_method(h, st, node) ==
    xml_get_args(xml_calls(h, xml_write(st, node), node,
                           XmlSlots(h[node].type), 1))

XmlVisited(n, st) ==
    /\ vis' = st.v
    /\ ret' = [tags |-> st.tags, written |-> st.written, err |-> st.err]
    /\ args' = [args EXCEPT !.target = n]
    /\ op' = "xml"
    /\ UNCHANGED <<heap, pre, ctx, onto, calls>>

(* n.accept(XmlVisitor()) for a coordination, clause or phrase n *)
XmlVisit ==
    /\ op = "build"
    /\ \E n \in Reach(heap, args.root) :
          /\ heap[n].type \in PhraseTypes \cup {CLAUSE, COORDINATION}
          /\ XmlVisited(n, xml_accept(heap, XmlRun(XmlVisitor_init(0)), n))

NextXml ==
    \/ Plant
    \/ GrowModifier
    \/ GrowCoordinate
    \/ XmlVisit

SpecXml == Init /\ [][NextXml]_vars

(***************************************************************************)
(* Hashing.  hash() of a str and of a tuple differ from one run of the     *)
(* interpreter to the next; here the strings in use are numbered and a     *)
(* tuple is numbered by its length, so that different arguments get        *)
(* different values.  The id of an element is the int 0 unless it is set,  *)
(* and hash(0) is 0.                                                       *)
(***************************************************************************)
MaxOps == 4

HashedStrings == <<"x", "y", "z", "v", "Bob", "x1", "w", "p", "NOUN",
                   "PRONOUN", "PREPOSITION", "the", "a", "">>

hash_str(s) ==
    IF \E i \in 1..Len(HashedStrings) : HashedStrings[i] = s
    THEN CHOOSE i \in 1..Len(HashedStrings) : HashedStrings[i] = s
    ELSE Len(HashedStrings) + 1

hash_id(id) == IF id = "0" THEN 0 ELSE hash_str(id)

(* the int operators ^ and & *)
RECURSIVE Xor(_, _)
Xor(a, b) ==
    IF a = 0 THEN b
    ELSE IF b = 0 THEN a
    ELSE 2 * Xor(a \div 2, b \div 2) + ((a + b) % 2)

RECURSIVE BitAnd(_, _)
BitAnd(a, b) ==
    IF a = 0 \/ b = 0 THEN 0
    ELSE 2 * BitAnd(a \div 2, b \div 2) + ((a % 2) * (b % 2))

(* hash(tuple(['k:v'.format(k, v) for k, v in features.items()])): the
   format string has no field, so the tuple holds 'k:v' once per feature *)
hash_features(f) == 32 * (Cardinality({k \in FeatKeys : f[k] # NoVal}) + 1)

(* a __hash__ that succeeds without touching the object, as object's does *)
object_hash(h, a) == Res(h, a)

(* Element.__hash__ *)
Element_hash(h, a) ==
    IF h[a].hash # NoHash THEN Res(h, h[a].hash)
    ELSE Res([h EXCEPT ![a].hash = Xor(hash_id(h[a].id),
                                      hash_features(h[a].features))],
             Xor(hash_id(h[a].id), hash_features(h[a].features)))

(* "self.hash = (11 * super().__hash__()) ^ rest": e is what
   super().__hash__() returned, which has stored its own value already *)
hash_as(e, a, rest) ==
    Res([e.h EXCEPT ![a].hash = Xor(11 * e.r, rest)], Xor(11 * e.r, rest))

(* String.__hash__ *)
String_hash(h, a) ==
    IF h[a].hash # NoHash THEN Res(h, h[a].hash)
    ELSE hash_as(Element_hash(h, a), a, hash_str(h[a].value))

(* Word.__hash__ *)
Word_hash(h, a) ==
    IF h[a].hash # NoHash THEN Res(h, h[a].hash)
    ELSE hash_as(Element_hash(h, a), a,
                 Xor(hash_str(h[a].pos), hash_str(h[a].value)))

(* Coordination.__hash__: "assert False" *)
Coordination_hash(h, a) == Raised(h)

(* Phrase.__hash__, which the phrases other than NounPhrase inherit:
   "assert False" *)
Phrase_hash(h, a) == Raised(h)

(* NounPhrase and Clause define __eq__ and no __hash__: their __hash__ is
   None and hash() raises TypeError *)
unhashable(h, a) == Raised(h)

RECURSIVE hash(_, _)

(* the rest of Var.__hash__ once super().__hash__() has returned e and
   hash(self.value) has returned val *)
Var_hashed(e, a, id, val) ==
    IF val.err THEN Raised(val.h)
    ELSE hash_as([e EXCEPT !.h = val.h], a, BitAnd(hash_str(id), val.r))

(* Var.__hash__ *)
Var_hash(h, a) ==
    IF h[a].hash # NoHash THEN Res(h, h[a].hash)
    ELSE Var_hashed(Element_hash(h, a), a, h[a].id,
                    hash(Element_hash(h, a).h, h[a].obj))

(* hash(a) *)
hash(h, a) ==
    IF h[a].type = ELEMENT THEN Element_hash(h, a)
    ELSE IF h[a].type = STRING_T THEN String_hash(h, a)
    ELSE IF h[a].type = WORD THEN Word_hash(h, a)
    ELSE IF h[a].type = VAR THEN Var_hash(h, a)
    ELSE IF h[a].type = COORDINATION THEN Coordination_hash(h, a)
    ELSE IF h[a].type \in {NOUN_PHRASE, CLAUSE} THEN unhashable(h, a)
    ELSE Phrase_hash(h, a)

(***************************************************************************)
(* A sentence is planted; then elements of it, String x, Var v and copies  *)
(* of them are hashed, copied and given a feature, MaxOps times in all.    *)
(* args.target is the element of the last operation, ret what it returned  *)
(* and pre the heap before it.                                             *)
(***************************************************************************)
HashOps == {"build", "hash", "set_feature", "deepcopy"}

Hashable(h, root) ==
    Reach(h, root) \cup {StringX, VarV} \cup {n \in Addrs(h) : n > root}

Operated(name, n, h, r, err) ==
    /\ heap' = h
    /\ op' = name
    /\ args' = [args EXCEPT !.target = n]
    /\ ret' = [NoRet EXCEPT !.r = r, !.err = err]
    /\ pre' = heap
    /\ calls' = calls + 1
    /\ UNCHANGED <<vis, ctx, onto>>

(* hash(n) *)
Hash ==
    /\ op \in HashOps
    /\ calls < MaxOps
    /\ \E n \in Hashable(heap, args.root) :
          Operated("hash", n, hash(heap, n).h, hash(heap, n).r,
                   hash(heap, n).err)

(* n.set_feature('NUMBER', 'plural') *)
SetFeature ==
    /\ op \in HashOps
    /\ calls < MaxOps
    /\ \E n \in Hashable(heap, args.root) :
          /\ heap[n].type \in {STRING_T, WORD, VAR}
          /\ Operated("set_feature", n,
                      set_feature(heap, n, "NUMBER", "plural"), FALSE, FALSE)

(* deepcopy(n) of a String, Word or Var *)
Clone ==
    /\ op \in HashOps
    /\ calls < MaxOps
    /\ \E n \in Hashable(heap, args.root) :
          /\ heap[n].type \in {STRING_T, WORD, VAR}
          /\ Operated("deepcopy", n, deepcopy(heap, n).h, FALSE, FALSE)

NextHash ==
    \/ Plant
    \/ Hash
    \/ SetFeature
    \/ Clone

SpecHash == Init /\ [][NextHash]_vars

(***************************************************************************)
(* Features.  A Message and a MsgSpec keep their features as an Element    *)
(* does and have the same del_feature; they are nodes of the heap that use *)
(* the features field only.  A feature is added to String x, Word x, the   *)
(* Message or the MsgSpec, or deleted from it: args.target is the object,  *)
(* ret.called the feature, ret.path the value asked for (NoVal for None)   *)
(* and pre the heap before the call.                                       *)
(***************************************************************************)
MESSAGE == "MESSAGE"
MSG_SPEC == "MSG_SPEC"

(* Message(rel, nucleus, features=features) *)
NewMessage(h, features) == Alloc(h, ElementNode(MESSAGE, features, NULL))

(* MsgSpec(name, features) *)
NewMsgSpec(h, features) == Alloc(h, ElementNode(MSG_SPEC, features, NULL))

(* Message.addfeatures({k: v}) and MsgSpec.addfeatures({k: v}) *)
addfeatures(h, a, k, v) == [h EXCEPT ![a].features[k] = v]

(* Message.del_feature(feat, val) *)
Message_del_feature(h, a, k, v) ==
    IF h[a].features[k] = NoVal THEN h
    ELSE IF v # NoVal THEN [h EXCEPT ![a].features[k] = NoVal]
    ELSE IF h[a].features[k] = NoneVal THEN [h EXCEPT ![a].features[k] = NoVal]
    ELSE h

(* MsgSpec.del_feature(feat, val) *)
MsgSpec_del_feature(h, a, k, v) ==
    IF h[a].features[k] = NoVal THEN h
    ELSE IF v # NoVal THEN [h EXCEPT ![a].features[k] = NoVal]
    ELSE IF h[a].features[k] = NoneVal THEN [h EXCEPT ![a].features[k] = NoVal]
    ELSE h

FeatValues == {"plural", "singular", NoneVal}

Featured(h) ==
    {WordX, StringX} \cup {n \in Addrs(h) : h[n].type \in {MESSAGE, MSG_SPEC}}

FeatureCall(name, n, k, v, h) ==
    /\ heap' = h
    /\ op' = name
    /\ args' = [args EXCEPT !.target = n]
    /\ ret' = [NoRet EXCEPT !.called = k, !.path = v]
    /\ pre' = heap
    /\ calls' = calls + 1
    /\ UNCHANGED <<vis, ctx, onto>>

MakeMessage ==
    /\ op = "lexicon"
    /\ \A n \in Addrs(heap) : heap[n].type # MESSAGE
    /\ \E v \in FeatValues \cup {NoVal} :
          /\ heap' = NewMessage(heap, [NoFeats EXCEPT !["NUMBER"] = v]).h
          /\ UNCHANGED <<op, args, ret, pre, vis, ctx, onto, calls>>

MakeMsgSpec ==
    /\ op = "lexicon"
    /\ \A n \in Addrs(heap) : heap[n].type # MSG_SPEC
    /\ \E v \in FeatValues \cup {NoVal} :
          /\ heap' = NewMsgSpec(heap, [NoFeats EXCEPT !["NUMBER"] = v]).h
          /\ UNCHANGED <<op, args, ret, pre, vis, ctx, onto, calls>>

(* n.set_feature(k, v), or n.addfeatures({k: v}) on a Message or MsgSpec *)
AddFeature ==
    /\ calls < MaxOps
    /\ \E n \in Featured(heap), v \in FeatValues :
          FeatureCall("set_feature", n, "NUMBER", v,
                      IF heap[n].type \in {MESSAGE, MSG_SPEC}
                      THEN addfeatures(heap, n, "NUMBER", v)
                      ELSE set_feature(heap, n, "NUMBER", v))

(* n.del_feature(k) and n.del_feature(k, v) *)
DelFeature ==
    /\ calls < MaxOps
    /\ \E n \in Featured(heap), k \in {"NUMBER", "PROPER"},
          v \in {NoVal, "plural", "singular"} :
          FeatureCall("del_feature", n, k, v,
                      IF heap[n].type = MESSAGE
                      THEN Message_del_feature(heap, n, k, v)
                      ELSE IF heap[n].type = MSG_SPEC
                      THEN MsgSpec_del_feature(heap, n, k, v)
                      ELSE del_feature(heap, n, k, v))

NextFeat ==
    \/ MakeMessage
    \/ MakeMsgSpec
    \/ AddFeature
    \/ DelFeature

SpecFeat == Init /\ [][NextFeat]_vars

(***************************************************************************)
(* generate_re over a document.  A part of a document is a record: a leaf  *)
(* (what a Message holds: None, a str, a MsgSpec or an element e of the    *)
(* heap), a message, a paragraph, a section or the document.  A leaf       *)
(* carries its place `at`: <<section, paragraph, message, k>>, where k is  *)
(* 0 for the nucleus and counts the satellites from 1, and titles have     *)
(* paragraph 0 and the document title section 0.                           *)
(* A run is the state a call works on: the heap h, the content c and the   *)
(* ontology o of the context in use, the number of LinguisticContext       *)
(* objects there are (contexts), the calls of generate_re on leaves so far *)
(* (log: the leaf's place and the context passed) and whether an exception *)
(* is on its way up (err).  kw is the context among the keyword arguments, *)
(* NULL when there is none.  The Message, Paragraph, Section and Document  *)
(* a call builds for its result are not kept.                              *)
(***************************************************************************)
MaxParts == 2

(* Element.arguments *)
arguments(h, a) == SelectSeq(constituents(h, a), LAMBDA x : h[x].type = VAR)

(* _replace_vars_with_nps(message, context=...); every Var of the model is
   bound to a Word, so "arg.value or arg.id" is arg.value *)
RECURSIVE replace_vars_with_nps(_, _, _, _, _, _)
replaced_var(r, o, message, vs, i) ==
    IF r.err THEN [h |-> r.h, d |-> r.d, err |-> TRUE]
    ELSE replace_vars_with_nps(
            replace_element(r.h, message, vs[i], r.a).h, r.d, o,
            message, vs, i + 1)
replace_vars_with_nps(h, d, o, message, vs, i) ==
    IF i > Len(vs) THEN [h |-> h, d |-> d, err |-> FALSE]
    ELSE replaced_var(generate_ref_exp(h, d, o, h[vs[i]].obj), o,
                      message, vs, i)

(* generate_re_element past _replace_vars_with_nps *)
optimised_element(st, r) ==
    [st EXCEPT !.h = r.h, !.c = r.c, !.err = r.err]
optimised_after(st, copied, v) ==
    IF v.err THEN [st EXCEPT !.h = v.h, !.c.referents = v.d, !.err = TRUE]
    ELSE optimised_element(st,
            optimise_ref_exp(v.h, [st.c EXCEPT !.referents = v.d], copied))
copied_element(st, w) ==
    optimised_after(st, w.a,
                    replace_vars_with_nps(w.h, st.c.referents, st.o, w.a,
                                          arguments(w.h, w.a), 1))

(* generate_re_element(element, **kwargs) *)
generate_re_element(st, element) == copied_element(st, deepcopy(st.h, element))

(* generate_re_message: generate_re for the nucleus, then for each
   satellite; these are the things it calls generate_re for, in its order *)
generate_re_message(msg) == <<msg.nucleus>> \o msg.satellites

(* generate_re_paragraph: for each message *)
generate_re_paragraph(para) == para.messages

(* a section whose paragraphs are taken before its title *)
paragraphs_first(sec) == sec.content \o <<sec.title>>

(* generate_re_section: for the title, then for each paragraph *)
generate_re_section(sec) == <<sec.title>> \o sec.content

(* generate_re_document: for the title, then for each section *)
generate_re_document(doc) == <<doc.title>> \o doc.sections

(* generate_re on None, a str, a MsgSpec or an Element, the context being
   there *)
generate_re_leaf(st, leaf, kw) ==
    IF leaf.kind = "element"
    THEN generate_re_element(
            [st EXCEPT !.log = Append(@, [at |-> leaf.at, context |-> kw])],
            leaf.e)
    ELSE [st EXCEPT !.log = Append(@, [at |-> leaf.at, context |-> kw])]

(* "if 'context' not in kwargs: kwargs['context'] = LinguisticContext()" *)
with_context(st, kw) ==
    IF kw # NULL THEN st
    ELSE [st EXCEPT !.contexts = @ + 1, !.c = NoContext, !.o = NoOntology]

context_of(st, kw) == IF kw # NULL THEN kw ELSE st.contexts + 1

(* the calls the function for msg makes *)
generate_re_parts(msg) ==
    IF msg.is = "message" THEN generate_re_message(msg)
    ELSE IF msg.is = "paragraph" THEN generate_re_paragraph(msg)
    ELSE IF msg.is = "section" THEN generate_re_section(msg)
    ELSE generate_re_document(msg)

(* generate_re(msg, **kwargs), and "generate_re(x, **kwargs) for x in xs"
   from the i-th x on *)
RECURSIVE generate_re(_, _, _)
RECURSIVE generate_re_each(_, _, _, _)
generate_re(st, msg, kw) ==
    IF st.err THEN st
    ELSE IF msg.is = "leaf"
         THEN generate_re_leaf(with_context(st, kw), msg, context_of(st, kw))
    ELSE generate_re_each(with_context(st, kw), generate_re_parts(msg), 1,
                          context_of(st, kw))
generate_re_each(st, xs, i, kw) ==
    IF i > Len(xs) \/ st.err THEN st
    ELSE generate_re_each(generate_re(st, xs[i], kw), xs, i + 1, kw)

(***************************************************************************)
(* The documents: Document(title, section...), each Section(title,         *)
(* paragraph...), each Paragraph(message...); the first message of a       *)
(* paragraph has a satellite.  Every leaf is of the kind `plain` but the   *)
(* one at `elt`, if any, which is the element e.                           *)
(***************************************************************************)
LeafAt(d, at) ==
    [is |-> "leaf", at |-> at,
     kind |-> IF at = d.elt THEN "element" ELSE d.plain, e |-> d.e]

MessageAt(d, s, p, m, nsat) ==
    [is |-> "message", nucleus |-> LeafAt(d, <<s, p, m, 0>>),
     satellites |-> [k \in 1..nsat |-> LeafAt(d, <<s, p, m, k>>)]]

ParagraphAt(d, s, p) ==
    [is |-> "paragraph",
     messages |-> [m \in 1..d.messages |->
                     MessageAt(d, s, p, m, IF m = 1 THEN 1 ELSE 0)]]

SectionAt(d, s) ==
    [is |-> "section", title |-> MessageAt(d, s, 0, 0, 0),
     content |-> [p \in 1..d.paragraphs |-> ParagraphAt(d, s, p)]]

DocumentOf(d) ==
    [is |-> "document", title |-> MessageAt(d, 0, 0, 0, 0),
     sections |-> [s \in 1..d.sections |-> SectionAt(d, s)]]

Places == (0..MaxParts) \X (0..MaxParts) \X (0..MaxParts) \X (0..1)

Designs ==
    [sections : 0..MaxParts, paragraphs : 1..MaxParts, messages : 1..MaxParts,
     plain : {"str", "none", "msg_spec"}, elt : Places \cup {<<>>},
     e : {WordX, VarV}]

(* the leaves of a document, by place *)
LeafPlaces(doc) ==
    {doc.title.nucleus.at}
      \cup {doc.sections[s].title.nucleus.at : s \in 1..Len(doc.sections)}
      \cup UNION {UNION {UNION {
             {doc.sections[s].content[p].messages[m].nucleus.at}
               \cup {doc.sections[s].content[p].messages[m].satellites[k].at :
                       k \in 1..Len(doc.sections[s].content[p].messages[m].satellites)} :
             m \in 1..Len(doc.sections[s].content[p].messages)} :
             p \in 1..Len(doc.sections[s].content)} :
             s \in 1..Len(doc.sections)}

(* the run a call starts with *)
Run(h, c, o, contexts) ==
    [h |-> h, c |-> c, o |-> o, contexts |-> contexts, log |-> <<>>,
     err |-> FALSE]

(* the names generate_re leaves behind *)
Generated(doc, kw, st) ==
    /\ heap' = st.h
    /\ ctx' = IF kw = NULL THEN ctx ELSE st.c
    /\ op' = "generate_re"
    /\ args' = [doc |-> doc, context |-> kw]
    /\ ret' = [log |-> st.log, contexts |-> st.contexts, err |-> st.err]
    /\ pre' = heap
    /\ calls' = calls + 1
    /\ UNCHANGED <<vis, onto>>

(* generate_re(doc), the caller passing no context, and
   generate_re(doc, context=c) for the context c the caller has taken, which
   is context 1 *)
GenerateRe ==
    \E kw \in {NULL, 1}, d \in Designs :
       /\ op = (IF kw = NULL THEN "lexicon" ELSE "context")
       /\ d.elt # <<>> => d.elt \in LeafPlaces(DocumentOf(d))
       /\ Generated(DocumentOf(d), kw,
                    generate_re(IF kw = NULL
                                THEN Run(heap, NoContext, NoOntology, 0)
                                ELSE Run(heap, ctx, onto, 1),
                                DocumentOf(d), kw))

NextDoc ==
    \/ NewDiscourse
    \/ GenerateRe

SpecDoc == Init /\ [][NextDoc]_vars

(***************************************************************************)
(* Vocabulary of the rewrite claims.  A position is a slot of the sentence *)
(* (the root): a member of one of its lists, or its head or specifier.     *)
(***************************************************************************)
EngineOps == {"replace_element", "replace_element_with_id"}
RewriteOps == EngineOps \cup {"replace"}
ById == op = "replace_element_with_id"
Root == args.root

(* two versions of an object agree in everything but the back-reference *)
Same(n) == [heap[n] EXCEPT !.parent = NULL] = [pre[n] EXCEPT !.parent = NULL]

(* the target matches the object o of the tree before the call *)
IsMatch(o) == o # NULL /\ Matches(pre, ById, o, args.target)
(* ... or an object below o *)
HasMatch(o) == \E n \in Reach(pre, o) : IsMatch(n)

Pos(slot, i) == [slot |-> slot, i |-> i]
Ascending(h, slot) ==
    [i \in 1..Len(GetList(h, Root, slot)) |-> Pos(slot, i)]
Descending(h, slot) ==
    [i \in 1..Len(GetList(h, Root, slot)) |->
        Pos(slot, Len(GetList(h, Root, slot)) + 1 - i)]
IsList(P) == P.slot \in Slots \cup {"coords"}
PosObj(h, P) ==
    CASE P.slot = "head" -> h[Root].head
      [] P.slot = "spec" -> h[Root].spec
      [] OTHER -> GetList(h, Root, P.slot)[P.i]

(* index of the first position of the order that satisfies Hit, 0 if none *)
FirstIn(order, Hit(_)) ==
    IF \E k \in 1..Len(order) : Hit(order[k])
    THEN CHOOSE k \in 1..Len(order) :
            Hit(order[k]) /\ \A j \in 1..(k - 1) : ~Hit(order[j])
    ELSE 0

ListsSameExcept(slot) ==
    \A s \in (Slots \cup {"coords"}) \ {slot} :
        GetList(heap, Root, s) = GetList(pre, Root, s)

(* the call acted on position P and on nothing else: P itself was
   overwritten or removed, or the change lies below P *)
ActedAt(P) ==
    IF IsMatch(PosObj(pre, P))
    THEN /\ \A n \in Addrs(pre) \ {Root} : Same(n)
         /\ ListsSameExcept(P.slot)
         /\ IF IsList(P)
            THEN /\ GetList(heap, Root, P.slot) \in
                      {Splice(pre, Root, P.slot, P.i, args.repl)[Root][P.slot],
                       Splice(pre, Root, P.slot, P.i, NULL)[Root][P.slot]}
                 /\ heap[Root].head = pre[Root].head
                 /\ heap[Root].spec = pre[Root].spec
            ELSE IF P.slot = "head"
            THEN heap[Root].spec = pre[Root].spec
                 /\ heap[Root].head # pre[Root].head
            ELSE heap[Root].head = pre[Root].head
                 /\ heap[Root].spec # pre[Root].spec
    ELSE /\ Same(Root)
         /\ \E n \in Reach(pre, PosObj(pre, P)) : ~Same(n)
         /\ \A n \in Addrs(pre) \ Reach(pre, PosObj(pre, P)) : Same(n)

(* the scan order of the rewrite engine on a Phrase or NounPhrase *)
EngineOrder ==
    Descending(pre, "post_modifiers") \o Descending(pre, "complements")
      \o <<Pos("head", 0)>> \o Descending(pre, "pre_modifiers")
      \o (IF pre[Root].type = NOUN_PHRASE THEN <<Pos("spec", 0)>> ELSE <<>>)
(* a list member is searched with its subtree, head and specifier are not *)
EngineHit(P) ==
    IF IsList(P) THEN HasMatch(PosObj(pre, P)) ELSE IsMatch(PosObj(pre, P))
EngineHits == {k \in 1..Len(EngineOrder) : EngineHit(EngineOrder[k])}

(* the scan order of the replace method of Phrase and NounPhrase *)
MethodOrder ==
    (IF pre[Root].type = NOUN_PHRASE THEN <<Pos("spec", 0)>> ELSE <<>>)
      \o Ascending(pre, "front_modifiers") \o Ascending(pre, "pre_modifiers")
      \o <<Pos("head", 0)>> \o Ascending(pre, "complements")
      \o Ascending(pre, "post_modifiers")
MethodHit(P) == HasMatch(PosObj(pre, P))
MethodHits == {k \in 1..Len(MethodOrder) : MethodHit(MethodOrder[k])}

OnPhrase == Root # NULL /\ pre # <<>> /\ pre[Root].type \in PhraseTypes

(* C3: replace_element and replace_element_with_id return False if and
   only if no node reachable from the root matches the target *)
C3_FalseIffNoMatch ==
    op \in EngineOps => (ret.r = FALSE <=> ~HasMatch(Root))

(* the number of slots of the object n whose content differs *)
ChangedSlots(n) ==
    Cardinality({s \in Slots \cup {"coords"} :
                    GetList(heap, n, s) # GetList(pre, n, s)})
      + (IF heap[n].head # pre[n].head THEN 1 ELSE 0)
      + (IF heap[n].spec # pre[n].spec THEN 1 ELSE 0)
      + (IF heap[n].subj # pre[n].subj THEN 1 ELSE 0)
      + (IF heap[n].vp # pre[n].vp THEN 1 ELSE 0)
ExactlyOneSlotChanged ==
    \E n \in Addrs(pre) :
        /\ ChangedSlots(n) = 1
        /\ \A m \in Addrs(pre) \ {n} : heap[m] = pre[m]

(* C4: a True result means exactly one slot of the tree was changed, a
   False result means the tree is unchanged *)
C4_TrueMeansOneReplacement ==
    op \in EngineOps =>
        IF ret.r THEN ExactlyOneSlotChanged
        ELSE \A n \in Addrs(pre) : heap[n] = pre[n]

(* C5: on a Phrase/NounPhrase whose searched slots hold more than one
   match, the engine replaces the first one in the order post-modifiers
   (descending), complements (descending), head, pre-modifiers
   (descending), specifier *)
C5_EngineScanOrder ==
    (op \in EngineOps /\ OnPhrase /\ ~IsMatch(Root)
       /\ Cardinality(EngineHits) >= 2)
    => (ret.r /\ ActedAt(EngineOrder[FirstIn(EngineOrder, EngineHit)]))
C5_Witness ==
    /\ op \in EngineOps /\ OnPhrase /\ ~IsMatch(Root)
    /\ Cardinality(EngineHits) >= 2
    /\ ret.r
    /\ Len(pre[Root].post_modifiers) = 2

(* C6 as claimed: the replace method of Phrase/NounPhrase follows the scan
   order of the engine *)
C6_MethodFollowsEngineOrder ==
    (op = "replace" /\ OnPhrase /\ ret.r /\ Cardinality(EngineHits) >= 2)
    => ActedAt(EngineOrder[FirstIn(EngineOrder, EngineHit)])

(* C6 as amended: the replace method of Phrase/NounPhrase replaces the
   first occurrence in the order specifier (NounPhrase), front-modifiers,
   pre-modifiers, head, complements, post-modifiers, every list ascending
   and every slot searched with its subtree *)
C6_MethodScanOrder ==
    (op = "replace" /\ OnPhrase /\ ret.r)
    => LET P == MethodOrder[FirstIn(MethodOrder, MethodHit)]
       IN  /\ MethodHits # {}
           /\ IF P.slot = "head" /\ IsMatch(pre[Root].head)
              THEN /\ heap[Root].head =
                        (IF pre[args.repl].type = pre[Root].type
                         THEN pre[args.repl].head ELSE args.repl)
                   /\ \A n \in Addrs(pre) \ {Root} : Same(n)
              ELSE ActedAt(P)
C6_Witness ==
    /\ op = "replace" /\ OnPhrase /\ ret.r
    /\ Cardinality(MethodHits) >= 2
    /\ MethodOrder[FirstIn(MethodOrder, MethodHit)].slot # "head"

(* a singleton slot that held an element still holds one, and a slot that
   was emptied holds a placeholder Element *)
SlotKept(old, new) ==
    old # NULL => (new # NULL /\ (new # old => heap[new].type = ELEMENT))
(* a list is as it was, or has lost exactly one member *)
ListKept(old, new) ==
    new = old \/ \E i \in 1..Len(old) : new = DelAt(old, i)

(* C7: with an absent replacement a matching list member is removed from
   its list and a matching singleton slot is set to a placeholder Element,
   never to None; the call returns True and does not raise *)
C7_AbsentReplacement ==
    (op \in RewriteOps /\ args.repl = NULL /\ (ret.r \/ ret.err))
    => /\ ret.r /\ ~ret.err
       /\ \A n \in Addrs(pre) :
            /\ SlotKept(pre[n].head, heap[n].head)
            /\ SlotKept(pre[n].spec, heap[n].spec)
            /\ SlotKept(pre[n].subj, heap[n].subj)
            /\ SlotKept(pre[n].vp, heap[n].vp)
            /\ \A s \in Slots \cup {"coords"} :
                  ListKept(GetList(pre, n, s), GetList(heap, n, s))

(* C8: on a freshly constructed visitor of any of the five classes, exit()
   raises when as many exit() calls as enter() calls have returned, so the
   depth never drops below the one the visitor started with *)
C8_UnmatchedExitRaises ==
    vis.kind # "" => (vis.exits <= vis.enters /\ vis.depth >= vis.depth0)

(* C9: once a call has taken the initial-reference path for a referent and
   entered it in context.referents, a later call for it with that context
   takes the repeated-reference path *)
C9_MentionedStaysMentioned ==
    [][(op' = "generate_ref_exp"
          /\ heap[args'.target].type \in {STRING_T, WORD}
          /\ Mentioned(heap, ctx.referents, args'.target))
       => ret'.path = "repeated"]_vars

(* the referent of the call, its name, and what the ontology holds of its
   type *)
Referent == args.target
RefName == heap[Referent].value
SameType == IF TypeOf(RefName) = "thing" THEN onto.things ELSE ProperNames
IsThe(h, a) ==
    a # NULL /\ h[a].type = WORD /\ h[a].value = "the"
      /\ h[a].pos = "DETERMINER"
FirstMention ==
    /\ op = "generate_ref_exp"
    /\ ret.path = "initial"
    /\ SameType = {} \/ SameType = {RefName}
(* the call returned a NounPhrase with specifier 'the', and the context
   holds (True, a copy of it without determiner) under the referent's name *)
DefiniteAndCachedUnique ==
    /\ ~ret.err
    /\ heap[ret.a].type = NOUN_PHRASE
    /\ IsThe(heap, heap[ret.a].spec)
    /\ heap[heap[ret.a].head].value = TypeOf(RefName)
    /\ dict_contains(heap, ctx.referents, StrKey(RefName))
    /\ LET e == dict_get(heap, ctx.referents, StrKey(RefName))
       IN  /\ e.unique
           /\ e.expr # ret.a
           /\ heap[e.expr].type = NOUN_PHRASE
           /\ heap[heap[e.expr].spec].type = ELEMENT
           /\ Eq(heap, heap[e.expr].head, heap[ret.a].head)

(* C10 as stated: every first mention of a referent whose type has no
   known instance, or the referent as its only one, in an ontology that
   answers *)
C10_UniqueIsDefinite ==
    (FirstMention /\ onto.present /\ ~onto.raises) => DefiniteAndCachedUnique

(* C10: ... when the referent's text starts with a character that is not
   an upper-case letter and the ontology answers *)
C10_UniqueCommonIsDefinite ==
    (FirstMention /\ RefName # "" /\ ~StartsUpper(RefName)
       /\ onto.present /\ ~onto.raises)
    => DefiniteAndCachedUnique
C10_Witness ==
    /\ FirstMention /\ ~StartsUpper(RefName)
    /\ onto.present /\ ~onto.raises
    /\ SameType = {RefName}
    /\ IsThe(heap, heap[ret.a].spec)
    /\ dict_contains(heap, ctx.referents, StrKey(RefName))

(* the call under way is a first mention: generate_ref_exp takes the
   initial-reference path for the String or Word it is given *)
InitialCall ==
    /\ op' = "generate_ref_exp"
    /\ ret'.path = "initial"
(* the call returned a new NounPhrase whose head is the referent itself *)
WrapsReferent ==
    /\ ~ret'.err
    /\ heap'[ret'.a].type = NOUN_PHRASE
    /\ ret'.a \notin Addrs(heap)
    /\ heap'[ret'.a].head = args'.target

(* C13: generate_ref_exp on a referent whose text starts with an upper-case
   letter returns a NounPhrase that wraps the referent and carries
   PROPER = "true", and leaves context.referents as it was, whether the
   context has an ontology or not *)
C13_ProperNameIsWrapped ==
    [][(InitialCall /\ StartsUpper(heap[args'.target].value))
       => /\ WrapsReferent
          /\ has_feature(heap', ret'.a, "PROPER", "true")
          /\ ctx'.referents = ctx.referents]_vars

(* C14: on a first mention of a referent that is no proper name, with a
   context whose ontology is missing or whose ontology raises, the call
   does not raise, returns a NounPhrase wrapping the referent, and records
   (False, that NounPhrase) for it in context.referents *)
C14_OntologyFailureFallsBack ==
    [][(InitialCall /\ ~StartsUpper(heap[args'.target].value)
          /\ (~onto.present \/ onto.raises))
       => /\ WrapsReferent
          /\ dict_contains(heap', ctx'.referents, EltKey(args'.target))
          /\ LET e == dict_get(heap', ctx'.referents, EltKey(args'.target))
             IN  ~e.unique /\ e.expr = ret'.a]_vars

(* the word is an indefinite article *)
IsIndefinite(h, a) ==
    a # NULL /\ h[a].type = WORD /\ h[a].value \in {"a", "an"}
      /\ h[a].pos = "DETERMINER"
(* what the ontology holds of the type of the referent called name *)
SameTypeOf(name) == IF TypeOf(name) = "thing" THEN onto.things ELSE ProperNames

(* C11: the expression of a first mention of a referent whose type has two
   or more instances in the ontology - the NounPhrase the context records
   for it - carries 'a' or 'an' once its determiner has been fixed *)
C11_FirstMentionIsIndefinite ==
    \A i \in 1..Len(ctx.referents) :
       (/\ op = "optimise_determiner"
        /\ ~ret.err
        /\ ctx.referents[i].key.str
        /\ args.target = ctx.referents[i].expr
        /\ Cardinality(SameTypeOf(ctx.referents[i].key.name)) >= 2)
       => IsIndefinite(heap, heap[args.target].spec)

(* C12: when generate_ref_exp has answered for a referent that was already
   cached as globally unique, and the determiner of the answer is fixed
   next, the answer carries 'the' *)
C12_UniqueStaysDefinite ==
    [][(/\ op = "generate_ref_exp"
        /\ ret.cached
        /\ ~ret.err
        /\ op' = "optimise_determiner"
        /\ args'.target = ret.a
        /\ ~ret'.err)
       => IsThe(heap', heap'[ret.a].spec)]_vars

(* the call under way is optimise_ref_exp on a sentence that has a
   NounPhrase or Coordination; FirstNP is the first of them, for which
   nothing was uttered yet *)
HasCandidate ==
    /\ op' = "optimise_ref_exp"
    /\ Len(candidates(heap, args'.target)) > 0
FirstNP == candidates(heap, args'.target)[1]
(* np is the last entry of the salience list of its gender *)
MostSalient(np) ==
    in_last(heap, salient(heap, ctx.np_stack, <<>>,
                          guess_phrase_gender(heap, np)), np)
(* the tree the call returned holds a new pronoun of that form *)
PronounIn(word) ==
    \E w \in Reach(heap', ret'.a) \ Addrs(heap) :
       heap'[w].type = WORD /\ heap'[w].pos = "PRONOUN"
         /\ heap'[w].value = word
(* the call returned a tree that holds a new pronoun and no longer np *)
Pronominalised(np) ==
    /\ ~ret'.err
    /\ np \notin Reach(heap', ret'.a)
    /\ \E word \in {"he", "him", "himself", "it", "itself"} : PronounIn(word)

(* the use of the pronoun for np, places being told by identity *)
UseByIdentity(h, phrase, np) ==
    IF h[phrase].type # CLAUSE THEN "subjective"
    ELSE IF np = h[phrase].subj THEN "subjective"
    ELSE IF np \in Reach(h, h[phrase].subj) /\ np \in Reach(h, h[phrase].vp)
    THEN "reflexive"
    ELSE IF np \in Reach(h, h[phrase].vp) THEN "objective"
    ELSE "subjective"

(* C15: when optimise_ref_exp turns a candidate into a pronoun, the pronoun
   is subjective if the candidate is the subject of the Clause, reflexive
   if that object lies in the subject and in the predicate, objective if it
   lies in the predicate only, and subjective otherwise or when the
   sentence is no Clause *)
C15_PronounCaseByIdentity ==
    [][(HasCandidate /\ MostSalient(FirstNP))
       => /\ ~ret'.err
          /\ PronounIn(pronoun_for_features(
                          guess_phrase_gender(heap, FirstNP),
                          UseByIdentity(heap, args'.target, FirstNP)))]_vars

(* C16: optimise_ref_exp turns a candidate into a pronoun exactly when the
   salience list of its gender is not empty and ends with it *)
C16_PronounIffMostSalient ==
    [][HasCandidate
       => (Pronominalised(FirstNP) <=> MostSalient(FirstNP))]_vars

(* optimise_ref_exp dealt with np: it made it a pronoun or fixed its
   determiner *)
Processed(np) ==
    /\ ~ret'.err
    /\ \/ np \notin Reach(heap', ret'.a)
       \/ Truthy(heap', heap'[np].spec)
       \/ has_feature(heap, np, "PROPER", "true")
       \/ has_feature(heap, np, "cat", "PRONOUN")

(* C17: a candidate that lies inside a candidate which was not made a
   pronoun is dealt with itself *)
C17_NestedStillProcessed ==
    [][(HasCandidate /\ ~MostSalient(FirstNP))
       => \A i \in 2..Len(candidates(heap, args'.target)) :
             (/\ candidates(heap, args'.target)[i] # FirstNP
              /\ candidates(heap, args'.target)[i] \in Reach(heap, FirstNP))
             => Processed(candidates(heap, args'.target)[i])]_vars

(* C18: after optimise_ref_exp every node that was reachable from the
   sentence it was given is as it was before the call *)
C18_InputUnchanged ==
    op = "optimise_ref_exp"
    => \A a \in Reach(pre, args.target) : heap[a] = pre[a]
C18_Witness ==
    /\ op = "optimise_ref_exp"
    /\ ret.err
    /\ \E np \in Range(candidates(heap, args.target)) :
          /\ ~Truthy(heap, heap[np].spec)
          /\ determiner_branch(heap, np, <<>>) = "indefinite"

(* C19: after optimise_determiner on a NounPhrase tagged PROPER = "true"
   or with a head of category PRONOUN the specifier is empty *)
C19_ProperHasNoDeterminer ==
    (/\ op = "optimise_determiner"
     /\ ~ret.err
     /\ \/ has_feature(pre, args.target, "PROPER", "true")
        \/ has_feature(pre, pre[args.target].head, "cat", "PRONOUN"))
    => ~Truthy(heap, heap[args.target].spec)

(* C20: accept has called the visitor method that VisitorNames gives for
   the type of the node, or it has raised *)
C20_AcceptCallsOrRaises ==
    op = "accept"
    => (ret.err \/ ret.called = VisitorNames(heap[args.target].type))

(***************************************************************************)
(* Vocabulary of the walk claims.  The node walked is args.target; the     *)
(* claims are read on sentences that are trees: no node is held twice.     *)
(***************************************************************************)
Walked == op = "constituents"
Walk == constituents(heap, args.target)

(* everything a node holds, slot by slot *)
Held(h, a) ==
    <<h[a].spec, h[a].head, h[a].subj, h[a].vp, h[a].obj>>
      \o h[a].front_modifiers \o h[a].pre_modifiers
      \o h[a].complements \o h[a].post_modifiers \o h[a].coords

(* the nodes under a, each as often as it is held *)
RECURSIVE Flat(_, _)
RECURSIVE FlatList(_, _, _)
FlatList(h, s, i) ==
    IF i > Len(s) THEN <<>>
    ELSE (IF s[i] = NULL THEN <<>> ELSE Flat(h, s[i])) \o FlatList(h, s, i + 1)
Flat(h, a) == <<a>> \o FlatList(h, Held(h, a), 1)

NoRepeat(s) == Cardinality(Range(s)) = Len(s)

IsTree(h, r) == NoRepeat(Flat(h, r))

(* the children of a node in the order the walk is said to take them *)
SlotOrder(h, a) ==
    IF h[a].type = COORDINATION THEN h[a].coords
    ELSE IF h[a].type = CLAUSE
         THEN h[a].pre_modifiers \o <<h[a].subj, h[a].vp>>
                \o h[a].complements \o h[a].post_modifiers
    ELSE IF h[a].type \in PhraseTypes
         THEN (IF h[a].type = NOUN_PHRASE THEN <<h[a].spec>> ELSE <<>>)
                \o h[a].front_modifiers \o h[a].pre_modifiers
                \o <<h[a].head>>
                \o h[a].complements \o h[a].post_modifiers
    ELSE <<>>

FirstAt(s, n) == CHOOSE i \in 1..Len(s) : s[i] = n /\ \A j \in 1..(i - 1) : s[j] # n

(* from place i on, s lists nodes under the k-th of the children given by
   under, then nodes under the next one, and so on *)
RECURSIVE ChildByChild(_, _, _, _)
ChildByChild(s, i, under, k) ==
    IF i > Len(s) THEN TRUE
    ELSE IF k > Len(under) THEN FALSE
    ELSE IF s[i] \in under[k] THEN ChildByChild(s, i + 1, under, k)
    ELSE ChildByChild(s, i, under, k + 1)

(* s lists a and then, child by child in SlotOrder, nodes the child holds;
   no child is passed over *)
InSlotOrder(h, a, s) ==
    LET kids == SlotOrder(h, a)
    IN  /\ s[1] = a
        /\ ChildByChild(s, 2, [k \in 1..Len(kids) |-> Range(Flat(h, kids[k]))], 1)
        /\ \A k \in 1..Len(kids) :
              h[kids[k]].type # ELEMENT => kids[k] \in Range(s)

IsNesting(h, n) == h[n].type \in PhraseTypes \cup {CLAUSE, COORDINATION}

OuterFirst(h, s) ==
    LET first == [n \in Range(s) |-> FirstAt(s, n)]
        outer == {n \in Range(s) : IsNesting(h, n)}
    IN  \A p \in outer :
           \A q \in (Range(Flat(h, p)) \ {p}) \cap outer : first[p] < first[q]

(* C21: on a tree, the walk of a Coordination, a Clause or a phrase lists
   the node itself first and then what its children expand to, child by
   child in the order of SlotOrder, passing over no child; and the first
   time a phrase is listed comes before the first time of any phrase
   nested in it *)
C21_WalkOrder ==
    (Walked /\ IsTree(heap, args.target))
       => LET s == Walk
          IN  InSlotOrder(heap, args.target, s) /\ OuterFirst(heap, s)

(* a noun phrase with a specifier, a modifier before the head and a phrase
   with a complement of its own after it has been walked *)
C21_Witness ==
    /\ Walked
    /\ IsTree(heap, args.target)
    /\ heap[args.target].type = NOUN_PHRASE
    /\ heap[heap[args.target].spec].type = WORD
    /\ heap[heap[args.target].head].type = WORD
    /\ heap[args.target].front_modifiers \o heap[args.target].pre_modifiers # <<>>
    /\ \E i \in 1..Len(heap[args.target].complements) :
          /\ heap[heap[args.target].complements[i]].type = PREPOSITIONAL_PHRASE
          /\ heap[heap[args.target].complements[i]].complements # <<>>

(* C30: on a tree, the walk lists no node twice *)
C30_ListedOnce ==
    (Walked /\ IsTree(heap, args.target))
       => NoRepeat(Walk)

(***************************************************************************)
(* Vocabulary of the hashing claims.                                       *)
(***************************************************************************)
Hashed == op = "hash"
HashedType == heap[args.target].type
Leaves == {STRING_T, WORD, VAR}

(* C22 as stated: hashing a Coordination fails and leaves it as it was;
   hashing an element of any other variant succeeds *)
C22_OnlyCoordinationFails ==
    Hashed => IF HashedType = COORDINATION THEN ret.err /\ heap = pre
              ELSE ~ret.err

(* C22, amended: hashing a Coordination, a Clause or a phrase of any kind
   fails and leaves the heap as it was; hashing an Element, a String, a
   Word, or a Var bound to a String or Word, succeeds *)
C22_PhrasesFailToo ==
    Hashed =>
       /\ HashedType \in PhraseTypes \cup {CLAUSE, COORDINATION}
             => (ret.err /\ heap = pre)
       /\ HashedType \in {ELEMENT, STRING_T, WORD} => ~ret.err
       /\ (HashedType = VAR /\ heap[heap[args.target].obj].type \in Leaves)
             => ~ret.err

(* a Coordination has been hashed *)
C22_Witness ==
    /\ Hashed
    /\ HashedType = COORDINATION
    /\ ret.err

(* what hash(a) returns in the heap h *)
HashValue(h, a) == hash(h, a).r

(* C29: in every state, two String, Word or Var elements that are equal
   have the same hash value *)
C29_EqualHaveEqualHash ==
    \A a, b \in Addrs(heap) :
       (heap[a].type \in Leaves /\ heap[b].type \in Leaves /\ Eq(heap, a, b))
          => HashValue(heap, a) = HashValue(heap, b)

(***************************************************************************)
(* Vocabulary of the feature claim.                                        *)
(***************************************************************************)
Deleting == op = "del_feature"
WasValue == pre[args.target].features[ret.called]
IsValue == heap[args.target].features[ret.called]

(* nothing but the feature asked for has changed *)
OthersKept ==
    /\ Len(heap) = Len(pre)
    /\ \A n \in Addrs(heap) :
          heap[n] = [pre[n] EXCEPT !.features[ret.called] = heap[n].features[ret.called]]
    /\ \A n \in Addrs(heap) \ {args.target} : heap[n] = pre[n]

(* C23: del_feature(feat, val) on an Element, Message or MsgSpec does
   nothing when the feature is absent; when val is None it deletes the
   feature whatever its value; when val is given it deletes the feature
   only if its value is val; no other feature is changed *)
C23_DeleteMatching ==
    Deleting =>
       /\ OthersKept
       /\ WasValue = NoVal => heap = pre
       /\ (WasValue # NoVal /\ ret.path = NoVal) => IsValue = NoVal
       /\ (WasValue # NoVal /\ ret.path # NoVal)
             => (IsValue = NoVal <=> WasValue = ret.path)
       /\ IsValue \in {NoVal, WasValue}

(***************************************************************************)
(* Vocabulary of the document claim.  Document order is the order of the   *)
(* places: title before sections, sections in order, in a section the      *)
(* title before the paragraphs, and so on down to nucleus and satellites.  *)
(***************************************************************************)
Before(p, q) ==
    \E i \in 1..4 : p[i] < q[i] /\ \A j \in 1..(i - 1) : p[j] = q[j]

Logged == {ret.log[i].at : i \in 1..Len(ret.log)}

(* C24: generate_re on a document, with or without a context from the
   caller, passes one and the same context to every part, there being one
   context in all; it takes the leaves in document order, passing over
   none; and it takes them all unless a leaf raises *)
C24_OneContextInOrder ==
    op = "generate_re" =>
       /\ ret.contexts = 1
       /\ \A i \in 1..Len(ret.log) : ret.log[i].context = 1
       /\ \A i, j \in 1..Len(ret.log) :
             i < j => Before(ret.log[i].at, ret.log[j].at)
       /\ \A q \in LeafPlaces(args.doc) :
             (\E i \in 1..Len(ret.log) : Before(q, ret.log[i].at))
                => q \in Logged
       /\ Logged \subseteq LeafPlaces(args.doc)
       /\ ~ret.err => Logged = LeafPlaces(args.doc)

(* a document of two sections with two paragraphs of two messages each
   has been taken to its end without a context from the caller *)
C24_Witness ==
    /\ op = "generate_re"
    /\ args.context = NULL
    /\ ~ret.err
    /\ Len(args.doc.sections) = 2
    /\ Len(args.doc.sections[2].content) = 2
    /\ Len(args.doc.sections[2].content[2].messages) = 2
    /\ Len(ret.log) = 15

(* ------------------------------------------------------------------ *)
(* Where the pronoun goes                                              *)
(* ------------------------------------------------------------------ *)

(* a is a pronoun that the call made *)
NewPronoun(a) ==
    /\ a # NULL
    /\ a \notin Addrs(heap)
    /\ heap'[a].type = WORD
    /\ heap'[a].pos = "PRONOUN"

(* the returned tree holds a new pronoun in the slot in which the sentence
   held np, and holds np nowhere *)
PronounInSlot(np) ==
    /\ ~ret'.err
    /\ np \notin Reach(heap', ret'.a)
    /\ IF np = args'.target THEN NewPronoun(ret'.a)
       ELSE \E q \in Reach(heap, args'.target), p \in Reach(heap', ret'.a) :
               /\ heap'[p].type = heap[q].type
               /\ \E i \in 1..Len(Held(heap, q)) :
                     /\ Held(heap, q)[i] = np
                     /\ i <= Len(Held(heap', p))
                     /\ NewPronoun(Held(heap', p)[i])

(* C25: when optimise_ref_exp decides to turn a candidate into a pronoun,
   the tree it returns holds the pronoun in the slot where the candidate was
   and holds the candidate no longer, wherever the candidate sits *)
C25_PronounTakesSlot ==
    [][(HasCandidate /\ MostSalient(FirstNP)) => PronounInSlot(FirstNP)]_vars

(* optimise_determiner would give np a determiner *)
NeedsDeterminer(np) ==
    /\ heap[np].type = NOUN_PHRASE
    /\ ~Truthy(heap, heap[np].spec)
    /\ ~has_feature(heap, np, "PROPER", "true")
    /\ ~has_feature(heap, np, "cat", "PRONOUN")
    /\ ~has_feature(heap, heap[np].head, "cat", "PRONOUN")
    /\ guess_phrase_number(heap, np) # "plural"

(* the call returned and optimise_determiner has run on np *)
DeterminerRan(np) ==
    /\ ~ret'.err
    /\ Truthy(heap', heap'[np].spec)

(* C26: optimise_ref_exp fixes the determiner of exactly the candidates it
   did not turn into a pronoun *)
C26_DeterminerIffNotPronoun ==
    [][(HasCandidate /\ NeedsDeterminer(FirstNP))
       => (DeterminerRan(FirstNP) <=> ~Pronominalised(FirstNP))]_vars


(* ------------------------------------------------------------------ *)
(* Repeated references                                                 *)
(* ------------------------------------------------------------------ *)

(* _do_repeated_reference was called for a referent the context holds *)
RepeatedCall ==
    /\ op = "_do_repeated_reference"
    /\ args.held
    /\ ~ret.err
(* the expression the context holds for the referent of the call *)
CachedExpr == args.entry.expr

(* the result is a copy of the cached expression that shares nothing with
   it and has the specifier 'the' *)
FreshCopyWithThe ==
    /\ Reach(heap, ret.a) \cap Addrs(pre) = {}
    /\ heap[ret.a].type = pre[CachedExpr].type
    /\ heap[ret.a].features = pre[CachedExpr].features
    /\ heap[heap[ret.a].head].value = pre[pre[CachedExpr].head].value
    /\ IsThe(heap, heap[ret.a].spec)
(* the context holds the entry it held, the expression as it was and
   without a determiner *)
CacheKept ==
    /\ dict_get(heap, ctx.referents, StrKey(args.name)) = args.entry
    /\ \A a \in Reach(pre, CachedExpr) : heap[a] = pre[a]
    /\ ~Truthy(heap, heap[CachedExpr].spec)
(* the result is the cached object, its specifier 'a' exactly when it is
   not tagged PROPER=true *)
CachedWithA ==
    /\ ret.a = CachedExpr
    /\ dict_get(heap, ctx.referents, StrKey(args.name)) = args.entry
    /\ IF has_feature(pre, CachedExpr, "PROPER", "true")
       THEN heap[ret.a].spec = pre[ret.a].spec
       ELSE /\ IsIndefinite(heap, heap[ret.a].spec)
            /\ heap[heap[ret.a].spec].value = "a"
            /\ heap[ret.a].spec \notin Addrs(pre)

(* C27: a repeated reference to a referent cached as unique returns a fresh
   copy of the cached expression with the specifier 'the' and leaves the
   cached entry as it was; a repeated reference to any other referent
   returns the cached object itself, its specifier set to 'a' exactly when
   it is not tagged PROPER=true *)
C27_RepeatedReference ==
    RepeatedCall
    => IF ret.cached THEN FreshCopyWithThe /\ CacheKept ELSE CachedWithA
C27_Witness ==
    /\ RepeatedCall
    /\ ret.cached
    /\ IsThe(heap, heap[ret.a].spec)
    /\ ret.a # CachedExpr
C27_WitnessShared ==
    /\ RepeatedCall
    /\ ~ret.cached
    /\ has_feature(heap, ret.a, "PROPER", "true")


(* ------------------------------------------------------------------ *)
(* Serialisation order                                                 *)
(* ------------------------------------------------------------------ *)

(* the nodes of s that a holds in a slot, each where s lists it first *)
RECURSIVE ChildrenIn(_, _, _, _)
ChildrenIn(h, a, s, i) ==
    IF i > Len(s) THEN <<>>
    ELSE IF /\ s[i] # NULL
            /\ s[i] \in Range(Held(h, a))
            /\ \A j \in 1..(i - 1) : s[j] # s[i]
    THEN <<s[i]>> \o ChildrenIn(h, a, s, i + 1)
    ELSE ChildrenIn(h, a, s, i + 1)

(* C28: XmlVisitor writes the children of a node in the order in which
   constituents() yields them, none left out *)
C28_XmlInWalkOrder ==
    (op = "xml" /\ IsTree(heap, args.target))
    => /\ ~ret.err
       /\ ChildrenIn(heap, args.target, ret.written, 1)
            = ChildrenIn(heap, args.target,
                         constituents(heap, args.target), 1)


================================================================================
